---- MODULE Spec2Model ----
(***************************************************************************)
(* Ze Finance backend: the chat orchestration core (app/ai/gateway.py),    *)
(* the tool registry and executor (app/ai/tools.py), the tool input        *)
(* schemas (app/chat/schemas.py), the transaction data layer (app/crud.py) *)
(* and the HTTP layer of POST /chat/messages (app/chat/routes.py).         *)
(*                                                                         *)
(* Money: a tool argument amount is counted in thousandths of a currency   *)
(* unit (mills); a persisted amount is a Numeric(10, 2) column and is      *)
(* counted in hundredths (cents).                                          *)
(***************************************************************************)
EXTENDS Integers, Sequences, FiniteSets, TLC

VARIABLES
    db,             \* transactions table: transaction id -> row
    nextId,         \* the next identifier uuid4() hands out
    now,            \* datetime.utcnow(), in ticks
    provider,       \* AI_PROVIDER
    env_key,        \* the environment key of the configured provider ("" when unset)
    ephemeral,      \* _ephemeral_api_keys: owner -> entry
    lastExec,       \* the last execute_tool call: caller, call and outcome
    steps,          \* number of direct execute_tool calls made (ToolSpec)
    pc,             \* position of the request in create_chat_message / process_chat_message
    req,            \* the inbound request: authenticated owner and flags
    api_key,        \* process_chat_message: the credential resolved for the request
    current_response, \* process_chat_message: the last response fully obtained
    tool_iterations,  \* process_chat_message: batches started
    idx,            \* position of the next tool call in the current batch
    tool_results,   \* results of the current batch
    all_tool_results, \* results of the finished batches
    tool_args_bound,  \* whether the local tool_args has been assigned in this request
    metadata,       \* ChatAssistantMeta accumulated by the request
    providerCalls,  \* number of call_llm invocations of the request
    llm_status,     \* how the last call_llm ended: "none", "ok", "error_tag", "raised"
    outcome,        \* what process_chat_message returned or raised
    http,           \* the HTTP answer of POST /chat/messages
    AI_TOOLS_MODE,  \* the configured tool mode
    chat,           \* chat_messages table: the persisted messages, oldest first
    tools_sent,     \* per call_llm of the request, whether it carried the tool definitions
    max_chars,      \* AI_TOOL_RESULTS_MAX_CHARS
    compact_in,     \* the tool result handed to compact_tool_result
    compact_out,    \* what compact_tool_result made of it
    stored,         \* per owner, the last entry set_ephemeral_api_key wrote
    lookup,         \* the last get_api_key call: owner, time and key found
    context_pack,   \* the last finance context pack built
    refresh_tokens, \* refresh_tokens table: the persisted tokens, oldest first
    issued,         \* number of refresh tokens create_refresh_token has handed out
    auth,           \* the last request served by the auth routes
    summaries,      \* chat_conversation_summaries table
    messages,       \* process_chat_message: the message sequence of the request
    sent,           \* per call_llm of the request, the message sequence it was passed
    deletes,        \* per concurrent request, its position in tool_delete_transaction
    keys_used       \* per call_llm of the request, the key its client was built with

vars == <<db, nextId, now, provider, env_key, ephemeral, lastExec, steps, pc, req,
          api_key, current_response, tool_iterations, idx, tool_results,
          all_tool_results, tool_args_bound, metadata, providerCalls, llm_status,
          outcome, http, AI_TOOLS_MODE, chat, tools_sent, max_chars, compact_in,
          compact_out, stored, lookup, context_pack, refresh_tokens, issued, auth,
          summaries, messages, sent, deletes, keys_used>>

gatewayVars == <<pc, req, api_key, current_response, tool_iterations, idx, tool_results,
                 all_tool_results, tool_args_bound, metadata, providerCalls, llm_status,
                 outcome, http>>

credentialVars == <<provider, env_key, ephemeral>>

compactVars == <<max_chars, compact_in, compact_out>>

storeVars == <<stored, lookup>>

packVars == <<context_pack>>

authVars == <<refresh_tokens, issued, auth>>

raceVars == <<deletes, keys_used>>

-----------------------------------------------------------------------------
(* Bounds of the model *)

\* transaction identifiers ever handed out
MaxTx == 2
\* largest clock value
MaxTime == 2
\* direct execute_tool calls per behaviour of ToolSpec
MaxSteps == 2
\* refresh tokens ever issued
MaxTokens == 2

Owners == {"A", "B"}
TxIds == 1..MaxTx
\* an identifier no row ever has (a well-formed uuid that does not exist)
MissingId == MaxTx + 1

Min(a, b) == IF a < b THEN a ELSE b

RECURSIVE SumOver(_, _)
SumOver(S, f) ==
    IF S = {} THEN 0
    ELSE LET x == CHOOSE y \in S : TRUE IN f[x] + SumOver(S \ {x}, f)

Range(s) == {s[i] : i \in DOMAIN s}

-----------------------------------------------------------------------------
(* Argument payloads of a tool call *)

Absent == [t |-> "absent", v |-> 0]
Num(n) == [t |-> "number", v |-> n]
\* a JSON string holding a number, e.g. "10"
NumStr(n) == [t |-> "numeric_string", v |-> n]
\* a value of a type the field can not be read from, e.g. "abc" or [1]
BadNum == [t |-> "wrong_type", v |-> 0]

AbsentStr == "<absent>"
WrongTypeStr == "<wrong type>"
\* occurred_at / from_date / to_date: 0 absent, -1 not a date-time, else the instant
AbsentDate == 0
BadDate == 0 - 1
\* transaction_id: 0 absent, -1 not a uuid, else the identifier
AbsentId == 0
BadId == 0 - 1

NoArgs ==
    [amount |-> Absent, type |-> AbsentStr, category |-> AbsentStr,
     description |-> AbsentStr, occurred_at |-> AbsentDate,
     transaction_id |-> AbsentId, limit |-> Absent, top_n |-> Absent,
     group_by |-> AbsentStr, from_date |-> AbsentDate, to_date |-> AbsentDate,
     user_id |-> AbsentStr]

IsNumeric(x) == x.t \in {"number", "numeric_string"}
IsPresent(x) == x.t # "absent"

-----------------------------------------------------------------------------
(* Tool input schemas: app/chat/schemas.py, validated by pydantic in its    *)
(* default (lax) mode: a numeric string is read as the number it holds, an  *)
(* unknown field such as user_id is ignored.                                *)

LimitMin == 1
LimitMax == 200
LimitDefault == 50
TopNMin == 1
TopNMax == 50

TxTypes == {"INCOME", "EXPENSE"}
GroupBys == {"category", "day", "month"}
\* a string of more than 255 characters, and one of blanks only
LongStr == "<more than 255 chars>"
BlankStr == " "

BadOptionalStr(x) == x = WrongTypeStr
BadRequiredStr(x) == x \in {AbsentStr, WrongTypeStr}

\* Offending fields of ListTransactionsInput(**args)
ListTransactionsInput(a) ==
    {f \in {"limit"} :
        IsPresent(a.limit) /\ (~IsNumeric(a.limit) \/ a.limit.v < LimitMin \/ a.limit.v > LimitMax)}
    \cup {f \in {"from_date"} : a.from_date = BadDate}
    \cup {f \in {"to_date"} : a.to_date = BadDate}

\* Offending fields of CreateTransactionInput(**args): amount is Field(gt=0)
CreateTransactionInput(a) ==
    {f \in {"amount"} : ~IsNumeric(a.amount) \/ a.amount.v <= 0}
    \cup {f \in {"type"} : a.type \notin TxTypes}
    \cup {f \in {"category"} : BadRequiredStr(a.category)}
    \cup {f \in {"description"} : BadOptionalStr(a.description)}
    \cup {f \in {"occurred_at"} : a.occurred_at = BadDate}

\* Offending fields of AnalyzeSpendingInput(**args)
AnalyzeSpendingInput(a) ==
    {f \in {"group_by"} : a.group_by # AbsentStr /\ a.group_by \notin GroupBys}
    \cup {f \in {"top_n"} :
        IsPresent(a.top_n) /\ (~IsNumeric(a.top_n) \/ a.top_n.v < TopNMin \/ a.top_n.v > TopNMax)}
    \cup {f \in {"from_date"} : a.from_date = BadDate}
    \cup {f \in {"to_date"} : a.to_date = BadDate}

\* Offending fields of UpdateTransactionInput(**args)
UpdateTransactionInput(a) ==
    {f \in {"transaction_id"} : a.transaction_id \in {AbsentId, BadId}}
    \cup {f \in {"amount"} : IsPresent(a.amount) /\ (~IsNumeric(a.amount) \/ a.amount.v <= 0)}
    \cup {f \in {"type"} : a.type # AbsentStr /\ a.type \notin TxTypes}
    \cup {f \in {"category"} : BadOptionalStr(a.category)}
    \cup {f \in {"description"} : BadOptionalStr(a.description)}
    \cup {f \in {"occurred_at"} : a.occurred_at = BadDate}

\* Offending fields of DeleteTransactionInput(**args)
DeleteTransactionInput(a) ==
    {f \in {"transaction_id"} : a.transaction_id \in {AbsentId, BadId}}

\* Offending fields of TransactionCreate(...) built from a validated input
TransactionCreate(a) ==
    {f \in {"amount"} : a.amount.v <= 0}
    \cup {f \in {"category"} : a.category = LongStr}
    \cup {f \in {"description"} : a.description = LongStr}

\* Offending fields of TransactionUpdate(**update_data)
TransactionUpdate(a) ==
    {f \in {"amount"} : IsPresent(a.amount) /\ a.amount.v <= 0}
    \cup {f \in {"category"} : a.category \in {LongStr, BlankStr}}
    \cup {f \in {"description"} : a.description = LongStr}

-----------------------------------------------------------------------------
(* Rows, exceptions and tool results *)

NoDescription == "<none>"

\* The value a Numeric(10, 2) column keeps of an amount given in mills
ToCents(m) == (m + 5) \div 10

Tx(u, amt, ty, cat, desc, at) ==
    [user_id |-> u, amount |-> amt, type |-> ty, category |-> cat,
     description |-> desc, occurred_at |-> at]

NoExc == [cls |-> "none", code |-> "", id |-> 0, fields |-> {}]
Exc(c, k, i, fs) == [cls |-> c, code |-> k, id |-> i, fields |-> fs]

EmptyResult ==
    [kind |-> "none", id |-> 0, amount |-> 0, type |-> "", category |-> "",
     description |-> "", occurred_at |-> 0, rows |-> << >>, count |-> 0,
     groups |-> << >>, group_by |-> "", total |-> 0, income |-> 0, expense |-> 0]

\* The dict built from a row by the create, update and list tools
TxDict(i, row) ==
    [EmptyResult EXCEPT !.kind = "transaction", !.id = i, !.amount = row.amount,
        !.type = row.type, !.category = row.category,
        !.description = row.description, !.occurred_at = row.occurred_at]

Returned(r, d, n) == [exc |-> NoExc, result |-> r, db |-> d, nextId |-> n]
Raised(e, d) == [exc |-> e, result |-> EmptyResult, db |-> d, nextId |-> nextId]

OwnedIds(d, u) == {i \in DOMAIN d : d[i].user_id = u}

-----------------------------------------------------------------------------
(* Data layer: app/crud.py *)

NoneId == 0

get_user_transaction_any_owner(d, transaction_id, user_id) ==
    IF transaction_id \in DOMAIN d THEN transaction_id ELSE NoneId

\* The id of the row when it exists and belongs to user_id, else None
get_user_transaction(d, transaction_id, user_id) ==
    IF transaction_id \in DOMAIN d /\ d[transaction_id].user_id = user_id
    THEN transaction_id
    ELSE NoneId

create_user_transaction(d, a, user_id) ==
    IF a.amount.v <= 0
    THEN Raised(Exc("HTTPException", "amount_must_be_positive", 0, {}), d)
    ELSE LET occurred_at == IF a.occurred_at # AbsentDate THEN a.occurred_at ELSE now
             row == Tx(user_id, ToCents(a.amount.v), a.type, a.category,
                       IF a.description = AbsentStr THEN NoDescription ELSE a.description,
                       occurred_at)
             d2 == [i \in DOMAIN d \cup {nextId} |-> IF i = nextId THEN row ELSE d[i]]
         IN  Returned(TxDict(nextId, row), d2, nextId + 1)

\* setattr for every field of update_data whose value is not None
UpdatedRowOverwritingCategory(row, a) ==
    [row EXCEPT
        !.amount = IF IsPresent(a.amount) THEN ToCents(a.amount.v) ELSE @,
        !.type = IF a.type # AbsentStr THEN a.type ELSE @,
        !.category = a.category,
        !.description = IF a.description # AbsentStr THEN a.description ELSE @,
        !.occurred_at = IF a.occurred_at # AbsentDate THEN a.occurred_at ELSE @]

UpdatedRow(row, a) ==
    [row EXCEPT
        !.amount = IF IsPresent(a.amount) THEN ToCents(a.amount.v) ELSE @,
        !.type = IF a.type # AbsentStr THEN a.type ELSE @,
        !.category = IF a.category # AbsentStr THEN a.category ELSE @,
        !.description = IF a.description # AbsentStr THEN a.description ELSE @,
        !.occurred_at = IF a.occurred_at # AbsentDate THEN a.occurred_at ELSE @]

HasUpdateField(a) ==
    \/ IsPresent(a.amount)
    \/ a.type # AbsentStr
    \/ a.category # AbsentStr
    \/ a.description # AbsentStr
    \/ a.occurred_at # AbsentDate

\* [found, db]: found is None when the row does not exist or is not the user's
update_user_transaction(d, transaction_id, user_id, a) ==
    LET transaction == get_user_transaction(d, transaction_id, user_id) IN
    IF transaction = NoneId THEN [found |-> NoneId, raised |-> FALSE, db |-> d]
    ELSE IF ~HasUpdateField(a) THEN [found |-> transaction, raised |-> FALSE, db |-> d]
    ELSE IF IsPresent(a.amount) /\ a.amount.v <= 0
         THEN [found |-> transaction, raised |-> TRUE, db |-> d]
    ELSE [found |-> transaction, raised |-> FALSE,
          db |-> [d EXCEPT ![transaction] = UpdatedRow(@, a)]]

\* a delete that reports a deleted row whatever the statement matched
delete_user_transaction_ignoring_rowcount(d, transaction_id, user_id) ==
    LET hit == {i \in DOMAIN d : i = transaction_id /\ d[i].user_id = user_id} IN
    [deleted |-> TRUE, db |-> [i \in DOMAIN d \ hit |-> d[i]]]

\* [deleted, db]: DELETE ... WHERE id = transaction_id AND user_id = user_id
delete_user_transaction(d, transaction_id, user_id) ==
    LET hit == {i \in DOMAIN d : i = transaction_id /\ d[i].user_id = user_id} IN
    [deleted |-> hit # {}, db |-> [i \in DOMAIN d \ hit |-> d[i]]]

get_dashboard_summary(d, user_id) ==
    LET mine == OwnedIds(d, user_id)
        amt == [i \in mine |-> d[i].amount]
        total_income == SumOver({i \in mine : d[i].type = "INCOME"}, amt)
        total_expense == SumOver({i \in mine : d[i].type # "INCOME"}, amt)
    IN  [total_balance |-> total_income - total_expense,
         total_income |-> total_income, total_expense |-> total_expense]

-----------------------------------------------------------------------------
(* Tools: app/ai/tools.py. Every tool yields the set of outcomes it can     *)
(* have: the order of rows that compare equal under ORDER BY, and of groups *)
(* with equal totals, is left open by the database.                         *)

InDateRange(at, a) ==
    /\ (a.from_date = AbsentDate \/ at >= a.from_date)
    /\ (a.to_date = AbsentDate \/ at <= a.to_date)

Injective(s) == \A i, j \in DOMAIN s : s[i] = s[j] => i = j

tool_get_balance(d, user_id) ==
    LET summary == get_dashboard_summary(d, user_id) IN
    {Returned([EmptyResult EXCEPT !.kind = "balance", !.total = summary.total_balance,
                  !.income = summary.total_income, !.expense = summary.total_expense],
              d, nextId)}

tool_list_transactions(d, user_id, a) ==
    LET limit == IF IsPresent(a.limit) THEN a.limit.v ELSE LimitDefault
        cands == {i \in OwnedIds(d, user_id) : InDateRange(d[i].occurred_at, a)}
        k == Min(limit, Cardinality(cands))
        orders == {s \in [1..k -> cands] :
                      /\ Injective(s)
                      /\ \A i, j \in 1..k : i < j => d[s[i]].occurred_at >= d[s[j]].occurred_at
                      /\ \A x \in cands \ Range(s) :
                            \A i \in 1..k : d[s[i]].occurred_at >= d[x].occurred_at}
    IN  {Returned([EmptyResult EXCEPT !.kind = "list",
                      !.rows = [j \in 1..k |-> TxDict(s[j], d[s[j]])], !.count = k],
                  d, nextId) : s \in orders}

tool_create_transaction(d, user_id, a) ==
    LET errs == TransactionCreate(a) IN
    IF errs # {} THEN {Raised(Exc("ValidationError", "", 0, errs), d)}
    ELSE {create_user_transaction(d, a, user_id)}

MonthOf(at) == at \div 2

GroupKey(row, group_by) ==
    IF group_by = "category" THEN [s |-> row.category, n |-> 0]
    ELSE IF group_by = "day" THEN [s |-> "", n |-> row.occurred_at]
    ELSE IF group_by = "month" THEN [s |-> "", n |-> MonthOf(row.occurred_at)]
    ELSE [s |-> "unknown", n |-> 0]

tool_analyze_spending_listed_total(d, user_id, a) ==
    LET group_by == IF a.group_by = AbsentStr THEN "category" ELSE a.group_by
        txs == {i \in OwnedIds(d, user_id) :
                   d[i].type = "EXPENSE" /\ InDateRange(d[i].occurred_at, a)}
        amt == [i \in txs |-> d[i].amount]
        keys == {GroupKey(d[i], group_by) : i \in txs}
        grouped == [k \in keys |-> SumOver({i \in txs : GroupKey(d[i], group_by) = k}, amt)]
        n == Cardinality(keys)
        orders == {s \in [1..n -> keys] :
                      /\ Injective(s)
                      /\ \A i, j \in 1..n : i < j => grouped[s[i]] >= grouped[s[j]]}
        top == IF IsPresent(a.top_n) /\ a.top_n.v # 0 THEN Min(a.top_n.v, n) ELSE n
    IN  {Returned([EmptyResult EXCEPT !.kind = "analysis", !.group_by = group_by,
                      !.groups = [j \in 1..top |-> [group |-> s[j], total |-> grouped[s[j]]]],
                      !.total = SumOver({s[j] : j \in 1..top}, grouped)],
                  d, nextId) : s \in orders}

\* results holds the groups by total descending, cut to top_n when given;
\* total is the sum over all groups
tool_analyze_spending(d, user_id, a) ==
    LET group_by == IF a.group_by = AbsentStr THEN "category" ELSE a.group_by
        txs == {i \in OwnedIds(d, user_id) :
                   d[i].type = "EXPENSE" /\ InDateRange(d[i].occurred_at, a)}
        amt == [i \in txs |-> d[i].amount]
        keys == {GroupKey(d[i], group_by) : i \in txs}
        grouped == [k \in keys |-> SumOver({i \in txs : GroupKey(d[i], group_by) = k}, amt)]
        n == Cardinality(keys)
        orders == {s \in [1..n -> keys] :
                      /\ Injective(s)
                      /\ \A i, j \in 1..n : i < j => grouped[s[i]] >= grouped[s[j]]}
        top == IF IsPresent(a.top_n) /\ a.top_n.v # 0 THEN Min(a.top_n.v, n) ELSE n
    IN  {Returned([EmptyResult EXCEPT !.kind = "analysis", !.group_by = group_by,
                      !.groups = [j \in 1..top |-> [group |-> s[j], total |-> grouped[s[j]]]],
                      !.total = SumOver(keys, grouped)],
                  d, nextId) : s \in orders}

tool_update_transaction(d, user_id, a) ==
    IF ~HasUpdateField(a)
    THEN {Raised(Exc("ValueError", "no_field_to_update", 0, {}), d)}
    ELSE IF TransactionUpdate(a) # {}
    THEN {Raised(Exc("ValidationError", "", 0, TransactionUpdate(a)), d)}
    ELSE LET r == update_user_transaction(d, a.transaction_id, user_id, a) IN
         IF r.raised
         THEN {Raised(Exc("HTTPException", "amount_must_be_positive", 0, {}), d)}
         ELSE IF r.found = NoneId
         THEN {Raised(Exc("ValueError", "not_found_or_not_owned", a.transaction_id, {}), d)}
         ELSE {Returned(TxDict(r.found, r.db[r.found]), r.db, nextId)}

tool_delete_transaction_forbidden(d, user_id, a) ==
    LET transaction == get_user_transaction(d, a.transaction_id, user_id) IN
    IF transaction = NoneId
    THEN IF a.transaction_id \in DOMAIN d
         THEN {Raised(Exc("ValueError", "owned_by_another_user", a.transaction_id, {}), d)}
         ELSE {Raised(Exc("ValueError", "not_found_or_not_owned", a.transaction_id, {}), d)}
    ELSE LET r == delete_user_transaction(d, a.transaction_id, user_id) IN
         {Returned([EmptyResult EXCEPT !.kind = "deleted", !.id = a.transaction_id,
                       !.amount = d[transaction].amount,
                       !.category = d[transaction].category],
                   r.db, nextId)}

tool_delete_transaction(d, user_id, a) ==
    LET transaction == get_user_transaction(d, a.transaction_id, user_id) IN
    IF transaction = NoneId
    THEN {Raised(Exc("ValueError", "not_found_or_not_owned", a.transaction_id, {}), d)}
    ELSE LET r == delete_user_transaction(d, a.transaction_id, user_id) IN
         IF ~r.deleted
         THEN {Raised(Exc("ValueError", "could_not_be_deleted", a.transaction_id, {}), d)}
         ELSE {Returned([EmptyResult EXCEPT !.kind = "deleted", !.id = a.transaction_id,
                            !.amount = d[transaction].amount,
                            !.category = d[transaction].category],
                        r.db, nextId)}

ToolNames == {"get_balance", "list_transactions", "create_transaction",
              "analyze_spending", "update_transaction", "delete_transaction"}

\* Model(**tool_args): a payload that is no mapping is a TypeError, offending
\* fields are a pydantic ValidationError, else the tool runs
Validated(d, errs, tool_args, run) ==
    IF ~tool_args.object THEN {Raised(Exc("TypeError", "not_a_mapping", 0, {}), d)}
    ELSE IF errs # {} THEN {Raised(Exc("ValidationError", "", 0, errs), d)}
    ELSE run

\* except ValidationError: raise ValueError("Invalid arguments for ...")
InvalidArguments(o) ==
    IF o.exc.cls = "ValidationError"
    THEN [o EXCEPT !.exc = Exc("ValueError", "invalid_arguments", 0, o.exc.fields)]
    ELSE o

execute_tool(d, user_id, tool_name, tool_args) ==
    LET a == tool_args.args
        outs ==
            IF tool_name = "get_balance" THEN tool_get_balance(d, user_id)
            ELSE IF tool_name = "list_transactions"
            THEN Validated(d, ListTransactionsInput(a), tool_args,
                           tool_list_transactions(d, user_id, a))
            ELSE IF tool_name = "create_transaction"
            THEN Validated(d, CreateTransactionInput(a), tool_args,
                           tool_create_transaction(d, user_id, a))
            ELSE IF tool_name = "analyze_spending"
            THEN Validated(d, AnalyzeSpendingInput(a), tool_args,
                           tool_analyze_spending(d, user_id, a))
            ELSE IF tool_name = "update_transaction"
            THEN Validated(d, UpdateTransactionInput(a), tool_args,
                           tool_update_transaction(d, user_id, a))
            ELSE IF tool_name = "delete_transaction"
            THEN Validated(d, DeleteTransactionInput(a), tool_args,
                           tool_delete_transaction(d, user_id, a))
            ELSE {Raised(Exc("ValueError", "unknown_tool", 0, {}), d)}
    IN  {InvalidArguments(o) : o \in outs}

-----------------------------------------------------------------------------
(* The tool calls the model draws from *)

Obj(a) == [object |-> TRUE, args |-> a]
\* a JSON value that is no object, e.g. [1] or "x"
NonObject == [object |-> FALSE, args |-> NoArgs]

KnownIds == TxIds \cup {MissingId}

\* get_balance takes no argument and execute_tool never reads its payload
GetBalanceArgs == {Obj(NoArgs), Obj([NoArgs EXCEPT !.user_id = "B"])}

ListArgs ==
    {Obj(NoArgs), NonObject,
     Obj([NoArgs EXCEPT !.limit = Num(LimitMin)]),
     Obj([NoArgs EXCEPT !.limit = Num(LimitMin - 1)]),
     Obj([NoArgs EXCEPT !.limit = Num(LimitMax + 1)]),
     Obj([NoArgs EXCEPT !.limit = BadNum]),
     Obj([NoArgs EXCEPT !.from_date = MaxTime]),
     Obj([NoArgs EXCEPT !.to_date = BadDate]),
     Obj([NoArgs EXCEPT !.user_id = "B"])}

NewTx(amt, ty, cat) == [NoArgs EXCEPT !.amount = amt, !.type = ty, !.category = cat]

CreateArgs ==
    {Obj(NewTx(Num(10), "EXPENSE", "Food")),
     Obj(NewTx(Num(20), "INCOME", "Salary")),
     Obj([NewTx(Num(20), "EXPENSE", "Transport") EXCEPT !.occurred_at = MaxTime, !.description = "uber"]),
     Obj(NewTx(Num(4), "EXPENSE", "Food")),
     Obj(NewTx(NumStr(10), "EXPENSE", "Food")),
     Obj([NewTx(Num(10), "EXPENSE", "Food") EXCEPT !.user_id = "B"]),
     Obj(NewTx(Num(0), "EXPENSE", "Food")),
     Obj(NewTx(Num(0 - 10), "EXPENSE", "Food")),
     Obj(NewTx(BadNum, "EXPENSE", "Food")),
     Obj(NewTx(Absent, "EXPENSE", "Food")),
     Obj(NewTx(Num(10), "TRANSFER", "Food")),
     Obj(NewTx(NumStr(10), "TRANSFER", AbsentStr)),
     Obj(NewTx(Num(10), AbsentStr, "Food")),
     Obj(NewTx(Num(10), "EXPENSE", AbsentStr)),
     Obj(NewTx(Num(10), "EXPENSE", WrongTypeStr)),
     Obj(NewTx(Num(10), "EXPENSE", LongStr)),
     Obj(NewTx(Num(0), "TRANSFER", AbsentStr)),
     Obj([NewTx(Num(10), "EXPENSE", "Food") EXCEPT !.occurred_at = BadDate]),
     NonObject}

AnalyzeArgs ==
    {Obj(NoArgs), NonObject,
     Obj([NoArgs EXCEPT !.group_by = "day"]),
     Obj([NoArgs EXCEPT !.group_by = "month", !.top_n = Num(TopNMin)]),
     Obj([NoArgs EXCEPT !.group_by = "week"]),
     Obj([NoArgs EXCEPT !.top_n = Num(TopNMin - 1)]),
     Obj([NoArgs EXCEPT !.top_n = Num(TopNMax + 1)]),
     Obj([NoArgs EXCEPT !.from_date = MaxTime, !.user_id = "B"])}

UpdateArgs ==
    {Obj([NoArgs EXCEPT !.transaction_id = i, !.amount = Num(20)]) : i \in KnownIds}
    \cup {Obj([NoArgs EXCEPT !.transaction_id = i, !.category = "Transport", !.user_id = "B"]) :
             i \in KnownIds}
    \cup {Obj([NoArgs EXCEPT !.transaction_id = 1]),
          Obj([NoArgs EXCEPT !.transaction_id = 1, !.amount = Num(0)]),
          Obj([NoArgs EXCEPT !.transaction_id = MissingId, !.amount = Num(0)]),
          Obj([NoArgs EXCEPT !.transaction_id = 1, !.amount = Num(4)]),
          Obj([NoArgs EXCEPT !.transaction_id = 1, !.amount = Num(0 - 10)]),
          Obj([NoArgs EXCEPT !.transaction_id = 1, !.type = "INCOME", !.occurred_at = MaxTime]),
          Obj([NoArgs EXCEPT !.transaction_id = 1, !.type = "TRANSFER"]),
          Obj([NoArgs EXCEPT !.transaction_id = 1, !.category = BlankStr]),
          Obj([NoArgs EXCEPT !.transaction_id = 1, !.description = "note"]),
          Obj([NoArgs EXCEPT !.transaction_id = AbsentId, !.amount = Num(20)]),
          Obj([NoArgs EXCEPT !.transaction_id = BadId, !.amount = Num(20)]),
          NonObject}

DeleteArgs ==
    {Obj([NoArgs EXCEPT !.transaction_id = i]) : i \in KnownIds}
    \cup {Obj([NoArgs EXCEPT !.transaction_id = i, !.user_id = "B"]) : i \in KnownIds}
    \cup {Obj(NoArgs), Obj([NoArgs EXCEPT !.transaction_id = BadId]), NonObject}

ArgsOf(n) ==
    IF n = "get_balance" THEN GetBalanceArgs
    ELSE IF n = "list_transactions" THEN ListArgs
    ELSE IF n = "create_transaction" THEN CreateArgs
    ELSE IF n = "analyze_spending" THEN AnalyzeArgs
    ELSE IF n = "update_transaction" THEN UpdateArgs
    ELSE IF n = "delete_transaction" THEN DeleteArgs
    ELSE {Obj(NoArgs)}

\* "export_data" stands for any name outside the registry
CallNames == ToolNames \cup {"export_data"}

ToolCalls == UNION {{[name |-> n, tool_args |-> t] : t \in ArgsOf(n)} : n \in CallNames}

-----------------------------------------------------------------------------
(* Credentials: get_api_key / set_ephemeral_api_key of app/ai/gateway.py *)

NoEntry == [key |-> "", expires_at |-> 0 - 1]
Entry(k, e) == [key |-> k, expires_at |-> e]

Providers == {"openai", "anthropic", "gemini"}
\* AI_PROVIDER may be set to a name that is none of the three backends
UnsupportedProvider == "mistral"

\* a key with blanks around it
PaddedKey == " sk-a1 "

\* str.strip() of the keys the model uses
Strip(k) == IF k = BlankStr THEN "" ELSE IF k = PaddedKey THEN "sk-a1" ELSE k

get_api_key_never_expires(user_id, store) ==
    IF provider \in Providers /\ Strip(env_key) # ""
    THEN [key |-> Strip(env_key), store |-> store]
    ELSE [key |-> Strip(store[user_id].key), store |-> store]

get_api_key_keeps_expired(user_id, store) ==
    IF provider \in Providers /\ Strip(env_key) # ""
    THEN [key |-> Strip(env_key), store |-> store]
    ELSE IF store[user_id] # NoEntry /\ now < store[user_id].expires_at
    THEN [key |-> Strip(store[user_id].key), store |-> store]
    ELSE [key |-> "", store |-> store]

\* [key, store]: the key found ("" for None) and the store after the lookup,
\* which drops the user's entry when it has expired
get_api_key(user_id, store) ==
    IF provider \in Providers /\ Strip(env_key) # ""
    THEN [key |-> Strip(env_key), store |-> store]
    ELSE IF store[user_id] # NoEntry
    THEN IF now < store[user_id].expires_at
         THEN [key |-> Strip(store[user_id].key), store |-> store]
         ELSE [key |-> "", store |-> [store EXCEPT ![user_id] = NoEntry]]
    ELSE [key |-> "", store |-> store]

-----------------------------------------------------------------------------
(* Provider adapter: call_llm and the three backends, app/ai/gateway.py *)

\* tool calls a provider returns over one request
MaxCalls == 3

GeminiErrors == {"service_unavailable", "rate_limit_exceeded", "authentication_error",
                 "invalid_request", "unknown_error"}

GeminiFallback == "Desculpe, nao consegui gerar uma resposta."
GeminiErrorText == "Desculpe, ocorreu um erro."

\* exception texts, as sequences of words
UnsupportedText == <<"Unsupported", "AI", "provider:", "mistral">>
KeyRequiredText == <<"OpenAI", "API", "key", "is", "required">>
TimeoutText == <<"internal", "LLM", "error:", "timeout">>
PackageText == <<"google-genai", "package", "is", "required">>
\* the tag of the reply to a google.genai error raised by the first call
ApiError == "api_error"

Exception(c, t) == [cls |-> c, text |-> t]
NoException == Exception("none", << >>)

\* What one call_llm can do: return a response of n tool calls, or raise.
\* A response carries tool calls only when the call offered the tools.
\* gemini maps a failure of the backend call to an error-tagged response and
\* puts a fallback text in a response that has neither text nor function call.
Response(c, n, e) == [kind |-> "response", content |-> c, n |-> n, error |-> e, exc |-> NoException]
Raise(c, t) == [kind |-> "raise", content |-> "", n |-> 0, error |-> "", exc |-> Exception(c, t)]

call_llm(p, room, tools) ==
    IF p \notin Providers THEN {Raise("ValueError", UnsupportedText)}
    ELSE LET offered == IF tools THEN room ELSE 0
             plain == {Response(c, n, "") : c \in {"", "Pronto!"}, n \in 0..offered}
             raises == {Raise("ValueError", TimeoutText), Raise("ValueError", KeyRequiredText),
                        Raise("Exception", TimeoutText)}
         IN  IF p = "gemini"
             THEN {IF r.content = "" /\ r.n = 0 THEN Response(GeminiFallback, 0, "") ELSE r :
                      r \in plain}
                  \cup {Response(GeminiErrorText, 0, e) : e \in GeminiErrors}
                  \cup {Raise("ImportError", PackageText), Raise("APIError", TimeoutText)}
             ELSE plain \cup raises

\* a client built with the key the store holds for the owner at the call
ClientKeyFromStore(key, env) == Strip(ephemeral[req.user_id].key)

\* _call_openai, _call_anthropic, _call_gemini: the key the client is built
\* with is the stripped argument, or the stripped environment key of the
\* provider when the argument is empty
ClientKey(key, env) == IF key = "" THEN Strip(env) ELSE Strip(key)

-----------------------------------------------------------------------------
(* Orchestration loop: process_chat_message of app/ai/gateway.py *)

EmptyMeta ==
    [ui_events |-> << >>,
     did_create_transaction |-> FALSE, created_transaction_id |-> 0,
     did_update_transaction |-> FALSE, updated_transaction_id |-> 0,
     did_delete_transaction |-> FALSE, deleted_transaction_id |-> 0]

\* ChatUiEvent: its type, title and the id and amount of its data payload
UiEvent(ty, title, r) == [type |-> ty, title |-> title, id |-> r.id, amount |-> r.amount]

\* "id" in result / "deleted" in result: the keys of the dict a tool returns
HasIdKey(r) == r.kind \in {"transaction", "deleted"}
HasDeletedKey(r) == r.kind = "deleted"

TrackMetadataAnyTool(m, name, r) ==
    IF HasDeletedKey(r)
    THEN [m EXCEPT !.did_delete_transaction = TRUE, !.deleted_transaction_id = r.id,
                   !.ui_events = Append(@, UiEvent("info_card", "Removido.", r))]
    ELSE IF HasIdKey(r)
    THEN [m EXCEPT !.did_create_transaction = TRUE, !.created_transaction_id = r.id,
                   !.ui_events = Append(@, UiEvent("success_card", "<random title>", r))]
    ELSE m

\* The if / elif chain that tracks a returned result in the metadata
TrackMetadata(m, name, r) ==
    IF name = "create_transaction" /\ HasIdKey(r)
    THEN [m EXCEPT !.did_create_transaction = TRUE, !.created_transaction_id = r.id,
                   !.ui_events = Append(@, UiEvent("success_card", "<random title>", r))]
    ELSE IF name = "update_transaction" /\ HasIdKey(r)
    THEN [m EXCEPT !.did_update_transaction = TRUE, !.updated_transaction_id = r.id,
                   !.ui_events = Append(@, UiEvent("success_card", "Atualizado.", r))]
    ELSE IF name = "delete_transaction" /\ HasDeletedKey(r)
    THEN [m EXCEPT !.did_delete_transaction = TRUE, !.deleted_transaction_id = r.id,
                   !.ui_events = Append(@, UiEvent("info_card", "Removido.", r))]
    ELSE m

\* One entry of tool_results: error is "" for a returned result, else the
\* "Failed to execute tool" payload with the exception as its message
ToolResult(id, name, o) ==
    [tool_call_id |-> id, name |-> name,
     error |-> IF o.exc = NoExc THEN "" ELSE "Failed to execute tool",
     message |-> o.exc, result |-> o.result]

max_tool_iterations(p) == IF p = "gemini" THEN 2 ELSE 1

LoopContinuesOffByOne(response, iterations, p) ==
    response.tool_calls # << >> /\ iterations <= max_tool_iterations(p)

\* The condition of the while loop
LoopContinues(response, iterations, p) ==
    response.tool_calls # << >> /\ iterations < max_tool_iterations(p)

ConfirmationCreateFirst(tool_names) ==
    IF "create_transaction" \in tool_names THEN "Transação registrada com sucesso!"
    ELSE IF "delete_transaction" \in tool_names THEN "Transação excluída com sucesso!"
    ELSE IF "update_transaction" \in tool_names THEN "Transação atualizada com sucesso!"
    ELSE "Operação realizada com sucesso!"

\* The if / elif chain over the names of the successful tools
Confirmation(tool_names) ==
    IF "update_transaction" \in tool_names THEN "Transação atualizada com sucesso!"
    ELSE IF "delete_transaction" \in tool_names THEN "Transação excluída com sucesso!"
    ELSE IF "create_transaction" \in tool_names THEN "Transação registrada com sucesso!"
    ELSE "Operação realizada com sucesso!"

FinalContentPrefersConfirmation(response, results) ==
    LET successful == {i \in DOMAIN results : results[i].error = ""} IN
    IF successful = {} THEN response.content
    ELSE Confirmation({results[i].name : i \in successful})

\* Content of the final response: the content obtained, or a fixed sentence
\* keyed by the names of the tools that returned without error
FinalContent(response, results) ==
    LET successful == {i \in DOMAIN results : results[i].error = ""}
        tool_names == {results[i].name : i \in successful}
    IN  IF response.content # "" \/ results = << >> \/ successful = {}
        THEN response.content
        ELSE Confirmation(tool_names)

NeedsKeyText == "Ola! Sou o Zefa. Preciso de uma chave de API."

NoOutcome ==
    [kind |-> "none", content |-> "", error |-> "", needs_api_key |-> FALSE,
     tool_calls |-> 0, metadata |-> EmptyMeta, exc |-> NoException]
Return(c, e, k, n, m) ==
    [kind |-> "returned", content |-> c, error |-> e, needs_api_key |-> k,
     tool_calls |-> n, metadata |-> m, exc |-> NoException]
Raises(x) == [NoOutcome EXCEPT !.kind = "raised", !.exc = x]

ErrorReplyFreshMetadata(r, m) == Return(r.content, r.error, FALSE, 0, EmptyMeta)

\* An error-tagged response goes back as it is, with the metadata m put in
ErrorReply(r, m) == Return(r.content, r.error, FALSE, 0, m)

\* How a call_llm ended, as the loop sees it
LlmStatus(r) ==
    IF r.kind = "raise" THEN "raised" ELSE IF r.error # "" THEN "error_tag" ELSE "ok"

NoResponse == [content |-> "", tool_calls |-> << >>, error |-> ""]
\* a tool call of a response that the loop has not reached yet
Unread == [id |-> << >>, name |-> "<unread>", json |-> "", tool_args |-> Obj(NoArgs)]
Obtained(r) == [content |-> r.content, tool_calls |-> [j \in 1..r.n |-> Unread], error |-> r.error]

NoReq == [user_id |-> "", text |-> << >>, conversation_id |-> 0,
          recent_messages |-> << >>, conversation_summary |-> << >>,
          include_context_pack |-> FALSE]
NoExec == [user_id |-> "", name |-> "", tool_args |-> Obj(NoArgs), exc |-> NoExc,
           result |-> EmptyResult]

\* The tool calls a response can carry. json tells whether the arguments text
\* parses; anthropic and openai hand the model's text on, gemini serialises a
\* dict, which always parses to an object.
ToolCall(n, j, t) == [name |-> n, json |-> j, tool_args |-> t]

ObjectCalls ==
    {ToolCall("create_transaction", "valid", Obj(NewTx(Num(10), "EXPENSE", "Food"))),
     ToolCall("create_transaction", "valid", Obj(NewTx(Num(0), "EXPENSE", "Food"))),
     ToolCall("update_transaction", "valid",
              Obj([NoArgs EXCEPT !.transaction_id = 1, !.amount = Num(20)])),
     ToolCall("delete_transaction", "valid", Obj([NoArgs EXCEPT !.transaction_id = 1])),
     ToolCall("list_transactions", "valid", Obj(NoArgs)),
     ToolCall("export_data", "valid", Obj(NoArgs))}

TextCalls == {ToolCall("create_transaction", "invalid", Obj(NoArgs))}

ProviderToolCalls(p) == IF p = "gemini" THEN ObjectCalls ELSE ObjectCalls \cup TextCalls

\* The id of a normalized tool call. openai and anthropic hand on the id the
\* provider gave the call (tool_call.id, content_block.id: one per call, here
\* its position among the calls of the request); for gemini the adapter makes
\* it up as f"gemini_{hash(str(func_call))}", a function of the name and the
\* arguments of the call
ToolCallId(p, position, c) ==
    IF p = "gemini" THEN <<"gemini", c.name, c.tool_args>> ELSE <<position>>

-----------------------------------------------------------------------------
(* HTTP layer: create_chat_message of app/chat/routes.py *)

NoHttp == [status |-> 0, detail |-> << >>]

\* str.lower() of the words exception texts are made of
Lower(w) ==
    CASE w = "Unsupported" -> "unsupported"
      [] w = "AI" -> "ai"
      [] w = "OpenAI" -> "openai"
      [] w = "API" -> "api"
      [] w = "LLM" -> "llm"
      [] w = "Qual meu " -> "qual meu "
      [] w = "SALDO" -> "saldo"
      [] w = "Meu " -> "meu "
      [] w = "Foi despesa" -> "foi despesa"
      [] w = "Pronto!" -> "pronto!"
      [] OTHER -> w

LowerText(t) == [i \in DOMAIN t |-> Lower(t[i])]

\* needle in text, both sequences of words
Contains(t, needle) ==
    \E k \in 0..(Len(t) - Len(needle)) : \A i \in DOMAIN needle : t[k + i] = needle[i]

\* The answer to an exception raised by process_chat_message
\* (status 201 stands for going on with the needs-key reply)
HandleException(exc) ==
    IF exc.cls = "ValueError"
    THEN IF Contains(LowerText(exc.text), <<"API", "key">>)
         THEN [status |-> 201, detail |-> << >>]
         ELSE [status |-> 500, detail |-> <<"AI", "processing", "error:">> \o exc.text]
    ELSE [status |-> 502, detail |-> <<"Erro", "ao", "processar", "mensagem.">>]

-----------------------------------------------------------------------------
(* Tool gating: should_attach_tools and should_force_tools_from_context of  *)
(* app/ai/gateway.py, and what the route derives from the inbound text.     *)
(* A text is a sequence of pieces; a keyword is in a text when its pieces   *)
(* occur in it side by side.                                                *)

ToolModes == {"always", "never", "heuristic"}
\* AI_TOOLS_MODE may be set to a name that is none of the three modes
UnknownMode == "auto"

action_keywords ==
    {<<"criar">>, <<"registrar">>, <<"adicionar">>, <<"create">>, <<"add">>, <<"register">>,
     <<"alterar">>, <<"altera">>, <<"mudar">>, <<"muda">>, <<"editar">>, <<"edita">>,
     <<"atualizar">>, <<"atualiza">>, <<"update">>, <<"edit">>, <<"change">>, <<"modify">>,
     <<"modificar">>,
     <<"deletar">>, <<"deleta">>, <<"remover">>, <<"remove">>, <<"excluir">>, <<"exclui">>,
     <<"apagar">>, <<"apaga">>, <<"delete">>, <<"exclude">>,
     <<"saldo">>, <<"gasto">>, <<"gastei">>, <<"receita">>, <<"despesa">>, <<"extrato">>,
     <<"quanto">>, <<"balance">>, <<"transaction">>, <<"spending">>,
     <<"transação">>, <<"transacao">>,
     <<"listar">>, <<"list">>, <<"mostrar">>, <<"show">>, <<"ver">>, <<"ver", " todas">>}

\* the keywords the route knows on top of the action keywords
finance_keywords ==
    action_keywords \cup
    {<<"fim do mês">>, <<"sobrou">>, <<"análise">>, <<"analise">>, <<"insight">>,
     <<"resumo">>, <<"total">>, <<"soma">>, <<"média">>, <<"dinheiro">>, <<"valor">>,
     <<"preço">>, <<"custo">>, <<"pagamento">>, <<"como estou">>, <<"como vai">>,
     <<"situação">>, <<"situacao">>, <<"status">>, <<"financeiro">>, <<"finanças">>,
     <<"financas">>, <<"grana">>, <<"reais">>}

clarification_markers ==
    {<<"categoria">>, <<"descrição">>, <<"descricao">>, <<"qual foi">>, <<"com o quê">>,
     <<"com o que">>, <<"foi despesa">>, <<"foi receita">>, <<"entrada ou saída">>,
     <<"entrada ou saida">>, <<"quando foi">>, <<"qual data">>, <<"data dessa">>,
     <<"pode confirmar">>}

\* any(keyword in text for keyword in keywords)
AnyIn(keywords, text) == \E k \in keywords : Contains(text, k)

should_attach_tools(user_message, include_context_pack) ==
    IF AI_TOOLS_MODE = "always" THEN TRUE
    ELSE IF AI_TOOLS_MODE = "never" THEN FALSE
    ELSE IF AI_TOOLS_MODE = "heuristic"
    THEN LET user_text_lower == LowerText(user_message) IN
         \/ include_context_pack /\ AnyIn(action_keywords, user_text_lower)
         \/ AnyIn(action_keywords, user_text_lower)
    ELSE include_context_pack

should_force_tools_any_turn(recent_messages) ==
    \E i \in DOMAIN recent_messages :
        /\ recent_messages[i].role = "assistant"
        /\ AnyIn(clarification_markers, LowerText(recent_messages[i].content))

\* The last assistant message of recent_messages holds a clarification marker
should_force_tools_from_context(recent_messages) ==
    LET assistants == {i \in DOMAIN recent_messages : recent_messages[i].role = "assistant"} IN
    IF recent_messages = << >> \/ assistants = {} THEN FALSE
    ELSE LET last_assistant == recent_messages[CHOOSE i \in assistants : \A j \in assistants : j <= i]
         IN  AnyIn(clarification_markers, LowerText(last_assistant.content))

\* attach_tools of process_chat_message: the mode decision, forced to true by
\* the clarification context
attach_tools(user_message, include_context_pack, recent_messages) ==
    \/ should_attach_tools(user_message, include_context_pack)
    \/ should_force_tools_from_context(recent_messages)

-----------------------------------------------------------------------------
(* Conversation record: create_chat_message and list_recent_messages of     *)
(* app/chat/crud.py. A conversation id is a positive number; the payload    *)
(* of a request names one or none.                                          *)

AI_MAX_CONTEXT_MESSAGES == 20

\* payload.conversation_id is None
NoConversation == 0 - 1

ChatRow(i, u, c, role, content) ==
    [id |-> i, user_id |-> u, conversation_id |-> c, role |-> role, content |-> content]

\* uuid4(): an id no message carries yet
NewConversation(rows) ==
    IF rows = << >> THEN 1
    ELSE 1 + (CHOOSE c \in {rows[k].conversation_id : k \in DOMAIN rows} :
                \A k \in DOMAIN rows : rows[k].conversation_id <= c)

create_chat_message_with_turns(rows, u, conversation_id, role, content) ==
    LET c == IF conversation_id = NoConversation THEN NewConversation(rows)
             ELSE conversation_id
    IN  IF role = "assistant"
        THEN rows \o <<ChatRow(Len(rows) + 1, u, c, "tool", << >>),
                       ChatRow(Len(rows) + 2, u, c, role, content)>>
        ELSE Append(rows, ChatRow(Len(rows) + 1, u, c, role, content))

\* db.add and db.commit of one message: the conversation_id of the payload is
\* taken as it comes, whoever uses it
create_chat_message(rows, u, conversation_id, role, content) ==
    LET c == IF conversation_id = NoConversation THEN NewConversation(rows)
             ELSE conversation_id
    IN  Append(rows, ChatRow(Len(rows) + 1, u, c, role, content))

list_recent_messages_any_owner(rows, u, conversation_id, limit) ==
    LET mine == SelectSeq(rows, LAMBDA m : m.conversation_id = conversation_id)
        n == Len(mine)
    IN  IF n <= limit THEN mine ELSE SubSeq(mine, n - limit + 1, n)

\* The newest limit messages of the owner in the conversation, oldest first
list_recent_messages(rows, u, conversation_id, limit) ==
    LET mine == SelectSeq(rows, LAMBDA m :
                    m.user_id = u /\ m.conversation_id = conversation_id)
        n == Len(mine)
    IN  IF n <= limit THEN mine ELSE SubSeq(mine, n - limit + 1, n)

\* recent_messages of the route: the recent messages but the one just persisted
RecentMessages(rows, user_message) ==
    LET recent_messages_list ==
            list_recent_messages(rows, user_message.user_id, user_message.conversation_id,
                                 AI_MAX_CONTEXT_MESSAGES)
    IN  SelectSeq(recent_messages_list, LAMBDA m : m.id # user_message.id)

\* The conversation ids a payload can carry: none, or one some message carries
\* (an id that no message carries selects nothing, as a new conversation does)
PayloadConversations(rows) ==
    {NoConversation} \cup {rows[k].conversation_id : k \in DOMAIN rows}

\* One row of chat_conversation_summaries
SummaryRow(u, c, summary) == [user_id |-> u, conversation_id |-> c, summary |-> summary]

NoSummary == << >>

\* scalar_one_or_none() of the summary of the owner for the conversation
get_conversation_summary(table, u, conversation_id) ==
    LET hits == SelectSeq(table, LAMBDA r :
                    r.user_id = u /\ r.conversation_id = conversation_id)
    IN  IF hits = << >> THEN NoSummary ELSE hits[1].summary

\* Create or update the summary of the owner for the conversation
update_conversation_summary(table, u, conversation_id, summary) ==
    IF get_conversation_summary(table, u, conversation_id) # NoSummary
    THEN [k \in DOMAIN table |->
            IF table[k].user_id = u /\ table[k].conversation_id = conversation_id
            THEN [table[k] EXCEPT !.summary = summary] ELSE table[k]]
    ELSE Append(table, SummaryRow(u, conversation_id, summary))

\* The text the summarising call returns for the messages it was given
SummaryText(older) == <<"resumo de ">> \o [k \in DOMAIN older |-> older[k].user_id]

\* After the reply is persisted: a conversation of more than max_messages
\* messages of the owner gets a summary of the owner's older messages, when
\* the summarising call answers; the tables it can leave
maybe_update_conversation_summary(table, rows, u, conversation_id) ==
    LET mine == SelectSeq(rows, LAMBDA m :
                    m.user_id = u /\ m.conversation_id = conversation_id)
        total_count == Len(mine)
        spoken == SelectSeq(mine, LAMBDA m : m.role # "system")
        older == SubSeq(spoken, 1, Min(Len(spoken), total_count - AI_MAX_CONTEXT_MESSAGES))
    IN  IF total_count <= AI_MAX_CONTEXT_MESSAGES \/ older = << >> THEN {table}
        ELSE {table, update_conversation_summary(table, u, conversation_id,
                                                 SummaryText(older))}

\* The texts a request can carry
BalanceText == <<"Qual meu ", "SALDO", "?">>
MoneyText == <<"Meu ", "dinheiro">>
BareText == <<"50">>
EmptyText == << >>
Texts == {BalanceText, MoneyText, BareText, EmptyText}

\* Texts of assistant turns
ClarifyingText == <<"Foi despesa", " ou ", "receita", "?">>
DoneText == <<"Pronto!">>

-----------------------------------------------------------------------------
(* Tool result compaction: compact_tool_result of app/ai/gateway.py.        *)
(* A text is a sequence of characters; a JSON value is a string, an         *)
(* integer, a list of values or a mapping, kept as the sequence of its      *)
(* key / value pairs.                                                       *)

\* longest list among the results the model draws, next to the default page
MaxList == 12
\* a character budget set below the default
SmallBudget == 30

AI_TOOL_RESULTS_MAX_CHARS == 4000
ListKeep == 10
StrKeep == 500

JStr(s) == [t |-> "str", s |-> s, n |-> 0, items |-> << >>]
JInt(n) == [t |-> "int", s |-> << >>, n |-> n, items |-> << >>]
JList(items) == [t |-> "list", s |-> << >>, n |-> 0, items |-> items]
\* items of a mapping: the pairs [key, value] in insertion order
JDict(pairs) == [t |-> "dict", s |-> << >>, n |-> 0, items |-> pairs]
Pair(k, v) == [t |-> "pair", key |-> k, value |-> v]

DigitChar(d) == <<"0", "1", "2", "3", "4", "5", "6", "7", "8", "9">>[d + 1]

\* str(n) of a natural number
RECURSIVE Digits(_)
Digits(n) == IF n < 10 THEN <<DigitChar(n)>> ELSE Digits(n \div 10) \o <<DigitChar(n % 10)>>

\* json.dumps(value, ensure_ascii=False, separators=(',', ':'))
RECURSIVE dumps(_)
RECURSIVE DumpsItems(_, _)
DumpsItems(items, i) ==
    IF i > Len(items) THEN << >>
    ELSE (IF i > 1 THEN <<",">> ELSE << >>) \o dumps(items[i]) \o DumpsItems(items, i + 1)

dumps(v) ==
    IF v.t = "str" THEN <<"\"">> \o v.s \o <<"\"">>
    ELSE IF v.t = "int" THEN Digits(v.n)
    ELSE IF v.t = "list" THEN <<"[">> \o DumpsItems(v.items, 1) \o <<"]">>
    ELSE IF v.t = "dict" THEN <<"{">> \o DumpsItems(v.items, 1) \o <<"}">>
    ELSE <<"\"">> \o v.key \o <<"\"", ":">> \o dumps(v.value)

Ellipsis == <<".", ".", ".">>

\* f"... ({n} more items)"
MoreItems(n) ==
    Ellipsis \o <<" ", "(">> \o Digits(n)
        \o <<" ", "m", "o", "r", "e", " ", "i", "t", "e", "m", "s", ")">>

\* "... (truncated)"
Truncated == Ellipsis \o <<" ", "(", "t", "r", "u", "n", "c", "a", "t", "e", "d", ")">>

\* value[:10] + [f"... ({len(value) - 10} more items)"]
TruncateList(value) ==
    JList(SubSeq(value.items, 1, ListKeep) \o <<JStr(MoreItems(Len(value.items) - ListKeep))>>)

CompactValueNoMarker(value) ==
    IF value.t = "list" /\ Len(value.items) > ListKeep
    THEN JList(SubSeq(value.items, 1, ListKeep))
    ELSE IF value.t = "str" /\ Len(value.s) > StrKeep
    THEN JStr(SubSeq(value.s, 1, StrKeep) \o Ellipsis)
    ELSE value

\* What the loop over result.items() keeps of one value
CompactValue(value) ==
    IF value.t = "list" /\ Len(value.items) > ListKeep
    THEN TruncateList(value)
    ELSE IF value.t = "str" /\ Len(value.s) > StrKeep
    THEN JStr(SubSeq(value.s, 1, StrKeep) \o Ellipsis)
    ELSE value

\* str(result) of a result that is neither a dict nor a list
StrOf(result) == IF result.t = "str" THEN result.s ELSE Digits(result.n)

\* [compacted, result_str]: the value that is serialised and the text returned
compact_tool_result(result, budget) ==
    LET compacted ==
            IF result.t = "dict"
            THEN JDict([i \in DOMAIN result.items |->
                          Pair(result.items[i].key, CompactValue(result.items[i].value))])
            ELSE IF result.t = "list" /\ Len(result.items) > ListKeep
            THEN TruncateList(result)
            ELSE result
        result_str ==
            IF result.t \in {"dict", "list"} THEN dumps(compacted)
            ELSE IF Len(StrOf(result)) > StrKeep
            THEN SubSeq(StrOf(result), 1, StrKeep) \o Ellipsis
            ELSE StrOf(result)
    IN  [compacted |-> compacted,
         result_str |-> IF Len(result_str) > budget
                        THEN SubSeq(result_str, 1, budget) \o Truncated
                        ELSE result_str]

\* The results the model draws
Numbers(n) == [i \in 1..n |-> JInt(i)]
Xs(n) == [i \in 1..n |-> "x"]
ListLens == (0..MaxList) \cup {LimitDefault}
KeyCount == <<"c", "o", "u", "n", "t">>
KeyRows == <<"r", "o", "w", "s">>
KeyNote == <<"n", "o", "t", "e">>

Results ==
    {JDict(<<Pair(KeyRows, JList(Numbers(n))), Pair(KeyCount, JInt(n))>>) : n \in ListLens}
    \cup {JDict(<<Pair(KeyNote, JStr(Xs(k))), Pair(KeyRows, JList(Numbers(n)))>>) :
              k \in {StrKeep, StrKeep + 1}, n \in {ListKeep, ListKeep + 1}}
    \cup {JDict(<<Pair(KeyRows, JList(Numbers(n))), Pair(KeyNote, JList(Numbers(ListKeep + 2)))>>) :
              n \in {1, ListKeep + 1}}
    \cup {JList(Numbers(n)) : n \in ListLens}
    \cup {JStr(Xs(k)) : k \in {3, StrKeep, StrKeep + 1}}
    \cup {JInt(7), JDict(<< >>),
          JDict([i \in 1..(ListKeep - 1) |-> Pair(Digits(i), JStr(Xs(StrKeep)))]),
          JDict(<<Pair(KeyRows, JList([i \in 1..(ListKeep + 1) |-> JStr(Xs(StrKeep))]))>>)}

Budgets == {SmallBudget, AI_TOOL_RESULTS_MAX_CHARS}

NoCompact == [compacted |-> JInt(0), result_str |-> <<"<none>">>]

CompactIdle ==
    /\ max_chars = AI_TOOL_RESULTS_MAX_CHARS
    /\ compact_in = JInt(0)
    /\ compact_out = NoCompact

-----------------------------------------------------------------------------
(* The ephemeral store on its own: set_ephemeral_api_key of                 *)
(* app/ai/gateway.py as POST /chat/api-key calls it, and get_api_key.       *)
(* A tick of the clock is the 60 minutes an entry lives.                    *)

TtlTicks == 1

set_ephemeral_api_key_shared(user_id, secret, store) ==
    [u \in DOMAIN store |-> Entry(Strip(secret), now + TtlTicks)]

set_ephemeral_api_key(user_id, secret, store) ==
    [store EXCEPT ![user_id] = Entry(Strip(secret), now + TtlTicks)]

\* the secrets an owner may send
SecretsOf(u) == IF u = "A" THEN {"sk-a1", "sk-a2", PaddedKey, BlankStr} ELSE {"sk-b1", "sk-b2"}

NoStored == [api_key |-> "", at |-> 0 - 1]
\* seq alternates so that every lookup is a step of its own
NoLookup == [user_id |-> "", at |-> 0 - 1, key |-> "", seq |-> 0]

StoreIdle ==
    /\ stored = [u \in Owners |-> NoStored]
    /\ lookup = NoLookup

-----------------------------------------------------------------------------
(* Finance context pack: build_finance_context_pack of app/ai/context.py *)

AI_CONTEXT_PACK_TX_LIMIT == 6
TopCategories == 5

\* now.replace(day=1, hour=0, ...): the first tick of the month of t
MonthStart(t) == MonthOf(t) * 2

\* one entry of recent_transactions
PackRow(row) ==
    [occurred_at |-> row.occurred_at, type |-> row.type, amount |-> row.amount,
     category |-> row.category, description |-> row.description]

\* The packs the function can return for the table d at time t: the order of
\* categories of equal amount and of rows of equal occurred_at is open.
\* month_transactions are the owner's rows with occurred_at >= month_start.
build_finance_context_pack(d, user_id, t, tx_limit) ==
    LET mine == OwnedIds(d, user_id)
        month == {i \in mine : d[i].occurred_at >= MonthStart(t)}
        amt == [i \in mine |-> d[i].amount]
        cats == {d[i].category : i \in {j \in month : d[j].type = "EXPENSE"}}
        by_cat == [c \in cats |->
                     SumOver({i \in month : d[i].type = "EXPENSE" /\ d[i].category = c}, amt)]
        k == Min(tx_limit, Cardinality(mine))
    IN  {[as_of |-> t, user_id |-> user_id,
          balance |-> get_dashboard_summary(d, user_id).total_balance,
          income_total |-> SumOver({i \in month : d[i].type = "INCOME"}, amt),
          expense_total |-> SumOver({i \in month : d[i].type = "EXPENSE"}, amt),
          top_expense_categories |->
              [j \in 1..Min(TopCategories, Cardinality(cats)) |->
                  [category |-> top[j], amount |-> by_cat[top[j]]]],
          recent_transactions |-> [j \in 1..k |-> PackRow(d[recent[j]])]] :
            top \in {s \in [1..Cardinality(cats) -> cats] :
                        /\ Injective(s)
                        /\ \A i, j \in DOMAIN s : i < j => by_cat[s[i]] >= by_cat[s[j]]},
            recent \in {s \in [1..k -> mine] :
                        /\ Injective(s)
                        /\ \A i, j \in 1..k : i < j => d[s[i]].occurred_at >= d[s[j]].occurred_at
                        /\ \A x \in mine \ Range(s) :
                              \A i \in 1..k : d[s[i]].occurred_at >= d[x].occurred_at}}

\* tx_limit as configured, and a small one
PackLimits == {1, AI_CONTEXT_PACK_TX_LIMIT}

NoPack ==
    [as_of |-> 0 - 1, user_id |-> "", balance |-> 0, income_total |-> 0, expense_total |-> 0,
     top_expense_categories |-> << >>, recent_transactions |-> << >>]

\* built counts the packs built, modulo 2
PackIdle == context_pack = [pack |-> NoPack, tx_limit |-> 0, built |-> 0]

\* The requests that run a delete_transaction call side by side, each with
\* its own database session
Requests == {"first", "second"}

\* the local variable transaction before get_user_transaction has answered
NoRead == [id |-> NoneId, amount |-> 0, category |-> ""]

\* pc: "none", then "start" (tool_delete_transaction entered), "read" (the
\* row was found, the delete statement not yet run), "done" (the tool call
\* of the loop has ended); transaction: the row get_user_transaction handed
\* back; result, metadata: the entry of tool_results and the metadata the
\* loop made of the call; existed: whether the transaction was a row of the
\* caller when the requests arrived
DeleteCall(position, user_id, transaction_id) ==
    [pc |-> position, user_id |-> user_id, transaction_id |-> transaction_id,
     existed |-> FALSE, transaction |-> NoRead,
     result |-> ToolResult(0, "delete_transaction", Raised(NoExc, << >>)),
     metadata |-> EmptyMeta]

\* no request is running delete_transaction, no provider call was made
RaceIdle ==
    /\ deletes = << >>
    /\ keys_used = << >>

-----------------------------------------------------------------------------
(* The message sequence of process_chat_message. An entry carries its role, *)
(* its text in pieces, the context pack serialised into it, the tool calls  *)
(* it echoes and the tool results it reports.                               *)

Message(role, content, pack, tool_calls, results) ==
    [role |-> role, content |-> content, pack |-> pack, tool_calls |-> tool_calls,
     results |-> results]

SummaryPrefix == "Resumo da conversa anterior: "
PackPrefix == "FINANCE_CONTEXT_PACK (server, scoped to user): "
ResultsPrefix == "Aqui estao os resultados das funcoes executadas:"

SystemPromptMessage == Message("system", <<"SYSTEM_PROMPT">>, NoPack, << >>, << >>)
SummaryMessage(summary) == Message("system", <<SummaryPrefix>> \o summary, NoPack, << >>, << >>)
PackMessage(p) == Message("system", <<PackPrefix>>, p, << >>, << >>)
\* {"role": msg.role, "content": msg.content} of a persisted message
HistoryMessage(m) == Message(m.role, m.content, NoPack, << >>, << >>)
UserMessage(text) == Message("user", text, NoPack, << >>, << >>)

\* "Build context messages": the sequences the first provider call can be
\* given (the context pack is one of those the builder can return)
BuildMessages(d, u, t, text, recent_messages, conversation_summary, include_context_pack) ==
    LET head == <<SystemPromptMessage>> \o
                (IF conversation_summary # << >>
                 THEN <<SummaryMessage(conversation_summary)>> ELSE << >>)
        tail == [k \in DOMAIN recent_messages |-> HistoryMessage(recent_messages[k])]
                    \o <<UserMessage(text)>>
    IN  IF include_context_pack
        THEN {head \o <<PackMessage(p)>> \o tail :
                p \in build_finance_context_pack(d, u, t, AI_CONTEXT_PACK_TX_LIMIT)}
        ELSE {head \o tail}

\* The assistant message echoing the tool calls just processed. Of an echoed
\* call the entry keeps the id and the tool; its text, the content that came
\* with the calls, is left out of the entry.
EchoedCall(tool_call) == [id |-> tool_call.id, name |-> tool_call.name]
AssistantEcho(response) ==
    Message("assistant", << >>, NoPack,
            [k \in DOMAIN response.tool_calls |-> EchoedCall(response.tool_calls[k])], << >>)

\* One entry of tool_results_text: the tool and whether its line starts ERRO
ResultLine(tool_result) == [name |-> tool_result.name, erro |-> tool_result.error # ""]

\* The synthetic user message reporting the results of the batch
ToolResultsMessage(results) ==
    Message("user", <<ResultsPrefix>>, NoPack, << >>,
            [k \in DOMAIN results |-> ResultLine(results[k])])

AppendBatchFromScratch(msgs, response, results) ==
    <<msgs[1], AssistantEcho(response)>> \o
    (IF results # << >> THEN <<ToolResultsMessage(results)>> ELSE << >>)

\* What the end of a batch makes of messages: the echo is appended, and the
\* results message when tool_results_text is not empty
AppendBatch(msgs, response, results) ==
    msgs \o <<AssistantEcho(response)>> \o
    (IF results # << >> THEN <<ToolResultsMessage(results)>> ELSE << >>)

-----------------------------------------------------------------------------
(* What each adapter makes of the message sequence: the entries that go     *)
(* into the system instruction of the request and those that go into its    *)
(* conversation, in order.                                                  *)

ProviderRequest(system, contents) == [system |-> system, contents |-> contents]

\* {"role": ..., "content": ...}: the text of the entry without its tool_calls
RoleAndContent(m) == [m EXCEPT !.tool_calls = << >>]

\* "messages": messages
OpenAIRequest(msgs) == ProviderRequest(<< >>, msgs)

\* entries of role system are skipped; "system": SYSTEM_PROMPT
AnthropicRequest(msgs) ==
    ProviderRequest(<<SystemPromptMessage>>,
        [k \in DOMAIN SelectSeq(msgs, LAMBDA m : m.role # "system") |->
            RoleAndContent(SelectSeq(msgs, LAMBDA m : m.role # "system")[k])])

\* system_instruction starts as SYSTEM_PROMPT and takes the text of every
\* entry of role system; a user entry goes to the conversation, an assistant
\* entry does when it has text
GeminiRequest(msgs) ==
    ProviderRequest(
        <<SystemPromptMessage>> \o SelectSeq(msgs, LAMBDA m : m.role = "system"),
        [k \in DOMAIN SelectSeq(msgs, LAMBDA m :
                    m.role = "user" \/ (m.role = "assistant" /\ m.content # << >>)) |->
            RoleAndContent(SelectSeq(msgs, LAMBDA m :
                    m.role = "user" \/ (m.role = "assistant" /\ m.content # << >>))[k])])

\* The request call_llm has the adapter of provider p make
RequestOf(p, msgs) ==
    IF p = "anthropic" THEN AnthropicRequest(msgs)
    ELSE IF p = "gemini" THEN GeminiRequest(msgs)
    ELSE OpenAIRequest(msgs)

-----------------------------------------------------------------------------
(* Refresh tokens: app/crud.py and app/routers/auth.py *)

\* Time in AuthSpec is counted in half weeks: REFRESH_TOKEN_EXPIRE_DAYS is 7
\* days, REFRESH_TOKEN_EXPIRE_DAYS_REMEMBER_ME 30 days
REFRESH_TOKEN_EXPIRE_DAYS == 2
REFRESH_TOKEN_EXPIRE_DAYS_REMEMBER_ME == 8

\* no cookie, no body field
NoToken == 0 - 1
\* revoked_at IS NULL
NotRevoked == 0 - 1

\* sha256(raw_token).hexdigest(): one digest per token
hash_refresh_token(raw_token) == <<"sha256", raw_token>>

get_refresh_token_expiry(remember_me, t) ==
    t + (IF remember_me THEN REFRESH_TOKEN_EXPIRE_DAYS_REMEMBER_ME
         ELSE REFRESH_TOKEN_EXPIRE_DAYS)

RefreshToken(user_id, token_hash, expires_at) ==
    [user_id |-> user_id, token_hash |-> token_hash, expires_at |-> expires_at,
     revoked_at |-> NotRevoked]

create_persistent_refresh_token(table, user_id, raw_token, expires_at) ==
    Append(table, RefreshToken(user_id, hash_refresh_token(raw_token), expires_at))

find_valid_refresh_token_revoked_or_not(table, raw_token, t) ==
    {k \in DOMAIN table :
        /\ table[k].token_hash = hash_refresh_token(raw_token)
        /\ table[k].expires_at > t}

\* The rows the select of find_valid_refresh_token matches at time t
find_valid_refresh_token(table, raw_token, t) ==
    {k \in DOMAIN table :
        /\ table[k].token_hash = hash_refresh_token(raw_token)
        /\ table[k].expires_at > t
        /\ table[k].revoked_at = NotRevoked}

\* The non-revoked row of the token, if any, gets revoked_at = now
revoke_refresh_token_by_raw(table, raw_token, t) ==
    [k \in DOMAIN table |->
        IF table[k].token_hash = hash_refresh_token(raw_token)
           /\ table[k].revoked_at = NotRevoked
        THEN [table[k] EXCEPT !.revoked_at = t] ELSE table[k]]

\* logged_out: the issued tokens POST /auth/logout has been served with
NoAuth == [op |-> "none", token |-> NoToken, status |-> 0, logged_out |-> {}]

AuthIdle ==
    /\ refresh_tokens = << >>
    /\ issued = 0
    /\ auth = NoAuth

-----------------------------------------------------------------------------
(* Initial states *)

SeedRow(u) == Tx(u, 3, "EXPENSE", "Food", NoDescription, 1)

\* Tables of fewer than MaxTx rows, every row with a positive amount: a
\* create call can still add a row
InitDbs ==
    UNION {{[i \in 1..k |-> SeedRow(o[i])] : o \in [1..k -> Owners]} : k \in 0..(MaxTx - 1)}

\* env key and ephemeral store the process can be in when a request arrives
CredentialConfigs ==
    {[env |-> "sk-env", store |-> [u \in Owners |-> NoEntry]],
     [env |-> "", store |-> [u \in Owners |-> NoEntry]],
     [env |-> BlankStr, store |-> [u \in Owners |-> IF u = "A" THEN Entry("sk-a", MaxTime) ELSE NoEntry]],
     [env |-> "", store |-> [u \in Owners |-> IF u = "A" THEN Entry("", MaxTime) ELSE NoEntry]]}

GatewayIdle ==
    /\ pc = "idle"
    /\ req = NoReq
    /\ api_key = ""
    /\ current_response = NoResponse
    /\ tool_iterations = 0
    /\ idx = 0
    /\ tool_results = << >>
    /\ all_tool_results = << >>
    /\ tool_args_bound = FALSE
    /\ metadata = EmptyMeta
    /\ providerCalls = 0
    /\ llm_status = "none"
    /\ outcome = NoOutcome
    /\ http = NoHttp
    /\ tools_sent = << >>
    /\ messages = << >>
    /\ sent = << >>

\* The tool mode is the default one and no conversation exists yet; the clock
\* is one tick before its last value
Init ==
    /\ db = [i \in {1} |-> SeedRow("A")]
    /\ nextId = 2
    /\ now = MaxTime - 1
    /\ provider \in Providers \cup {UnsupportedProvider}
    /\ \E c \in CredentialConfigs : env_key = c.env /\ ephemeral = c.store
    /\ lastExec = NoExec
    /\ steps = 0
    /\ GatewayIdle
    /\ AI_TOOLS_MODE = "heuristic"
    /\ chat = << >>
    /\ CompactIdle
    /\ StoreIdle
    /\ PackIdle
    /\ RaceIdle
    /\ AuthIdle
    /\ summaries = << >>

-----------------------------------------------------------------------------
(* Actions of a request *)

\* POST /chat/messages arrives with the token of user u: a payload without
\* text is answered 400; else the user message is persisted and the route
\* works out recent_messages and include_context_pack
ReceiveMessage(u) ==
    /\ pc = "idle"
    /\ \E text \in Texts :
        IF text = EmptyText
        THEN /\ http' = [status |-> 400, detail |-> <<"Message", "text", "is", "required">>]
             /\ pc' = "responded"
             /\ UNCHANGED <<chat, req>>
        ELSE \E payload_conversation \in PayloadConversations(chat) :
             LET rows == create_chat_message(chat, u, payload_conversation, "user", text)
                 user_message == rows[Len(rows)]
                 conversation_id == user_message.conversation_id
             IN  /\ chat' = rows
                 /\ req' = [user_id |-> u, text |-> text,
                            conversation_id |-> conversation_id,
                            recent_messages |-> RecentMessages(rows, user_message),
                            conversation_summary |->
                                get_conversation_summary(summaries, u, conversation_id),
                            include_context_pack |->
                                AnyIn(finance_keywords, LowerText(text))]
                 /\ pc' = "check_key"
                 /\ http' = http
    /\ UNCHANGED <<AI_TOOLS_MODE, tools_sent, messages, sent, compactVars, storeVars, packVars, raceVars, authVars, summaries>>
    /\ UNCHANGED <<db, nextId, now, credentialVars, lastExec, steps, api_key,
                   current_response, tool_iterations, idx, tool_results, all_tool_results,
                   tool_args_bound, metadata, providerCalls, outcome,
                   llm_status>>

\* process_chat_message: resolve the credential, answer at once when there is none
CheckApiKey ==
    /\ pc = "check_key"
    /\ LET r == get_api_key(req.user_id, ephemeral) IN
        /\ ephemeral' = r.store
        /\ api_key' = r.key
        /\ IF r.key = ""
           THEN /\ outcome' = Return(NeedsKeyText, "", TRUE, 0, EmptyMeta)
                /\ pc' = "returned"
                /\ messages' = messages
           ELSE /\ outcome' = outcome
                /\ pc' = "first_call"
                /\ messages' \in BuildMessages(db, req.user_id, now, req.text,
                                               req.recent_messages,
                                               req.conversation_summary,
                                               req.include_context_pack)
    /\ UNCHANGED <<AI_TOOLS_MODE, chat, tools_sent, sent, compactVars, storeVars, packVars, raceVars, authVars, summaries>>
    /\ UNCHANGED <<db, nextId, now, provider, env_key, lastExec, steps, req,
                   current_response, tool_iterations, idx, tool_results, all_tool_results,
                   tool_args_bound, metadata, providerCalls, http,
                   llm_status>>

\* First LLM call, with the tools when attach_tools says so
FirstCall ==
    /\ pc = "first_call"
    /\ providerCalls' = providerCalls + 1
    /\ tools_sent' = Append(tools_sent,
            attach_tools(req.text, req.include_context_pack, req.recent_messages))
    /\ keys_used' = Append(keys_used, ClientKey(api_key, env_key))
    /\ sent' = Append(sent, messages)
    /\ messages' = messages
    /\ \E r \in call_llm(provider, MaxCalls,
                          attach_tools(req.text, req.include_context_pack,
                                       req.recent_messages)) :
        llm_status' = LlmStatus(r) /\ (
        IF r.kind = "raise" /\ provider = "gemini" /\ r.exc.cls = "APIError"
        THEN /\ outcome' = Return(GeminiErrorText, ApiError, FALSE, 0, EmptyMeta)
             /\ pc' = "returned"
             /\ UNCHANGED <<current_response, metadata, tool_iterations, all_tool_results>>
        ELSE IF r.kind = "raise"
        THEN /\ outcome' = Raises(r.exc)
             /\ pc' = "raised"
             /\ UNCHANGED <<current_response, metadata, tool_iterations, all_tool_results>>
        ELSE IF r.error # ""
        THEN /\ outcome' = ErrorReply(r, EmptyMeta)
             /\ pc' = "returned"
             /\ current_response' = Obtained(r)
             /\ UNCHANGED <<metadata, tool_iterations, all_tool_results>>
        ELSE /\ current_response' = Obtained(r)
             /\ metadata' = EmptyMeta
             /\ tool_iterations' = 0
             /\ all_tool_results' = << >>
             /\ pc' = "loop"
             /\ outcome' = outcome)
    /\ UNCHANGED <<AI_TOOLS_MODE, chat, compactVars, storeVars, packVars, deletes, authVars, summaries>>
    /\ UNCHANGED <<db, nextId, now, credentialVars, lastExec, steps, req, api_key, idx,
                   tool_results, tool_args_bound, http>>

\* while current_response.get("tool_calls") and tool_iterations < max_tool_iterations
WhileLoop ==
    /\ pc = "loop"
    /\ IF LoopContinues(current_response, tool_iterations, provider)
       THEN /\ tool_iterations' = tool_iterations + 1
            /\ tool_results' = << >>
            /\ idx' = 1
            /\ pc' = "exec"
       ELSE /\ pc' = "finalize"
            /\ UNCHANGED <<tool_iterations, tool_results, idx>>
    /\ UNCHANGED <<AI_TOOLS_MODE, chat, tools_sent, messages, sent, compactVars, storeVars, packVars, raceVars, authVars, summaries>>
    /\ UNCHANGED <<db, nextId, now, credentialVars, lastExec, steps, req, api_key,
                   current_response, all_tool_results, tool_args_bound, metadata,
                   providerCalls, outcome, http,
                   llm_status>>

AfterToolCall ==
    IF idx = Len(current_response.tool_calls)
    THEN pc' = "batch_done" /\ idx' = idx
    ELSE pc' = "exec" /\ idx' = idx + 1

\* The body of "for tool_call in current_response['tool_calls']" for the call at idx
ExecuteToolCall ==
    /\ pc = "exec"
    /\ \E c \in ProviderToolCalls(provider) :
        LET id == ToolCallId(provider, Len(all_tool_results) + idx, c)
            tool_call == [id |-> id, name |-> c.name, json |-> c.json, tool_args |-> c.tool_args]
        IN
        /\ current_response' = [current_response EXCEPT !.tool_calls[idx] = tool_call]
        /\ IF c.json = "invalid"
           THEN \* json.loads raises; the handler prints tool_args
                IF ~tool_args_bound
                THEN /\ outcome' = Raises(Exception("UnboundLocalError", <<"tool_args">>))
                     /\ pc' = "raised"
                     /\ UNCHANGED <<db, nextId, lastExec, tool_results, metadata,
                                    tool_args_bound, idx>>
                ELSE /\ tool_results' = Append(tool_results,
                            ToolResult(id, c.name, Raised(Exc("JSONDecodeError", "", 0, {}), db)))
                     /\ AfterToolCall
                     /\ UNCHANGED <<db, nextId, lastExec, metadata, tool_args_bound, outcome>>
           ELSE \E o \in execute_tool(db, req.user_id, c.name, c.tool_args) :
                /\ o.nextId <= MaxTx + 1
                /\ tool_args_bound' = TRUE
                /\ db' = o.db
                /\ nextId' = o.nextId
                /\ lastExec' = [user_id |-> req.user_id, name |-> c.name,
                                tool_args |-> c.tool_args, exc |-> o.exc, result |-> o.result]
                /\ tool_results' = Append(tool_results, ToolResult(id, c.name, o))
                /\ metadata' = IF o.exc = NoExc THEN TrackMetadata(metadata, c.name, o.result)
                               ELSE metadata
                /\ AfterToolCall
                /\ outcome' = outcome
    /\ UNCHANGED <<AI_TOOLS_MODE, chat, tools_sent, messages, sent, compactVars, storeVars, packVars, raceVars, authVars, summaries>>
    /\ UNCHANGED <<now, credentialVars, steps, req, api_key, tool_iterations,
                   all_tool_results, providerCalls, http,
                   llm_status>>

FollowUpCallUnguarded ==
    /\ pc = "batch_done"
    /\ all_tool_results' = all_tool_results \o tool_results
    /\ providerCalls' = providerCalls + 1
    /\ tools_sent' = Append(tools_sent, TRUE)
    /\ messages' = AppendBatch(messages, current_response, tool_results)
    /\ keys_used' = Append(keys_used, ClientKey(api_key, env_key))
    /\ sent' = Append(sent, AppendBatch(messages, current_response, tool_results))
    /\ \E r \in call_llm(provider, MaxCalls - Len(all_tool_results \o tool_results), TRUE) :
        llm_status' = LlmStatus(r) /\ (
        IF r.kind = "raise"
        THEN /\ outcome' = Raises(r.exc)
             /\ pc' = "raised"
             /\ UNCHANGED current_response
        ELSE IF r.error # ""
        THEN /\ outcome' = ErrorReply(r, metadata)
             /\ pc' = "returned"
             /\ current_response' = Obtained(r)
        ELSE /\ current_response' = Obtained(r)
             /\ pc' = "loop"
             /\ outcome' = outcome)
    /\ UNCHANGED <<AI_TOOLS_MODE, chat, compactVars, storeVars, packVars, deletes, authVars, summaries>>
    /\ UNCHANGED <<db, nextId, now, credentialVars, lastExec, steps, req, api_key,
                   tool_iterations, idx, tool_results, tool_args_bound, metadata, http>>

\* End of a batch: the results join all_tool_results and the provider is
\* called again with the tools attached
FollowUpCall ==
    /\ pc = "batch_done"
    /\ all_tool_results' = all_tool_results \o tool_results
    /\ providerCalls' = providerCalls + 1
    /\ tools_sent' = Append(tools_sent, TRUE)
    /\ messages' = AppendBatch(messages, current_response, tool_results)
    /\ keys_used' = Append(keys_used, ClientKey(api_key, env_key))
    /\ sent' = Append(sent, AppendBatch(messages, current_response, tool_results))
    /\ \E r \in call_llm(provider, MaxCalls - Len(all_tool_results \o tool_results), TRUE) :
        llm_status' = LlmStatus(r) /\ (
        IF r.kind = "raise"
        THEN /\ pc' = "finalize"
             /\ UNCHANGED <<current_response, outcome>>
        ELSE IF r.error # ""
        THEN /\ outcome' = ErrorReply(r, metadata)
             /\ pc' = "returned"
             /\ current_response' = Obtained(r)
        ELSE /\ current_response' = Obtained(r)
             /\ pc' = "loop"
             /\ outcome' = outcome)
    /\ UNCHANGED <<AI_TOOLS_MODE, chat, compactVars, storeVars, packVars, deletes, authVars, summaries>>
    /\ UNCHANGED <<db, nextId, now, credentialVars, lastExec, steps, req, api_key,
                   tool_iterations, idx, tool_results, tool_args_bound, metadata, http>>

\* final_response: content, synthesized when empty, and the metadata
Finalize ==
    /\ pc = "finalize"
    /\ outcome' = Return(FinalContent(current_response, all_tool_results), "", FALSE,
                         Len(current_response.tool_calls), metadata)
    /\ pc' = "returned"
    /\ UNCHANGED <<AI_TOOLS_MODE, chat, tools_sent, messages, sent, compactVars, storeVars, packVars, raceVars, authVars, summaries>>
    /\ UNCHANGED <<db, nextId, now, credentialVars, lastExec, steps, req, api_key,
                   current_response, tool_iterations, idx, tool_results, all_tool_results,
                   tool_args_bound, metadata, providerCalls, http,
                   llm_status>>

\* The route answers: 201 with the reply, which it persists as the assistant
\* message, or the error of its except clauses
Respond ==
    /\ pc \in {"returned", "raised"}
    /\ LET answer == IF outcome.kind = "raised" THEN HandleException(outcome.exc)
                     ELSE [status |-> 201, detail |-> << >>]
           content == IF outcome.kind = "raised" THEN NeedsKeyText ELSE outcome.content
       IN  /\ http' = answer
           /\ IF answer.status = 201
              THEN LET rows == create_chat_message(chat, req.user_id, req.conversation_id,
                                                   "assistant", <<content>>)
                   IN  /\ chat' = rows
                       /\ summaries' \in maybe_update_conversation_summary(
                                            summaries, rows, req.user_id, req.conversation_id)
              ELSE UNCHANGED <<chat, summaries>>
    /\ pc' = "responded"
    /\ UNCHANGED <<AI_TOOLS_MODE, tools_sent, messages, sent, compactVars, storeVars, packVars, raceVars, authVars>>
    /\ UNCHANGED <<db, nextId, now, credentialVars, lastExec, steps, req, api_key,
                   current_response, tool_iterations, idx, tool_results, all_tool_results,
                   tool_args_bound, metadata, providerCalls, outcome,
                   llm_status>>

\* Time passes. The clock is read when a request resolves its credential and
\* when a created row takes its default date; a request is short against a
\* tick, so the clock moves between requests.
Tick ==
    /\ pc = "idle"
    /\ now < MaxTime
    /\ now' = now + 1
    /\ UNCHANGED <<AI_TOOLS_MODE, chat, tools_sent, messages, sent, compactVars, storeVars, packVars, raceVars, authVars, summaries>>
    /\ UNCHANGED <<db, nextId, credentialVars, lastExec, steps, gatewayVars>>

Next ==
    \/ \E u \in Owners : ReceiveMessage(u)
    \/ CheckApiKey
    \/ FirstCall
    \/ WhileLoop
    \/ ExecuteToolCall
    \/ FollowUpCall
    \/ Finalize
    \/ Respond
    \/ Tick

Spec == Init /\ [][Next]_vars

-----------------------------------------------------------------------------
(* Requests under every tool mode and on conversations that already hold    *)
(* turns. Owner A alone has a key, an ephemeral one, which expires one tick *)
(* after the start.                                                         *)

Conversation(turns) ==
    [i \in DOMAIN turns |-> ChatRow(i, turns[i][1], 1, turns[i][2], turns[i][3])]

\* no turn yet; the last assistant turn of A asked for a missing detail (a
\* later turn of B did not); an earlier assistant turn of A asked, its last
\* one did not
Histories ==
    {Conversation(<< >>),
     Conversation(<<<<"A", "user", BareText>>, <<"A", "assistant", ClarifyingText>>,
                    <<"B", "assistant", DoneText>>>>),
     Conversation(<<<<"A", "assistant", ClarifyingText>>, <<"A", "user", BareText>>,
                    <<"A", "assistant", DoneText>>>>)}

GateInit ==
    /\ db = [i \in {1} |-> SeedRow("A")]
    /\ nextId = 2
    /\ now = MaxTime - 1
    /\ provider = "openai"
    /\ env_key = ""
    /\ ephemeral = [u \in Owners |-> IF u = "A" THEN Entry("sk-a", MaxTime) ELSE NoEntry]
    /\ lastExec = NoExec
    /\ steps = 0
    /\ GatewayIdle
    /\ AI_TOOLS_MODE \in ToolModes \cup {UnknownMode}
    /\ chat \in Histories
    /\ CompactIdle
    /\ StoreIdle
    /\ PackIdle
    /\ RaceIdle
    /\ AuthIdle
    /\ summaries = << >>

GateSpec == GateInit /\ [][Next]_vars

-----------------------------------------------------------------------------
(* Requests on a conversation id that two owners use. Each turn tells its   *)
(* owner; a conversation that has outgrown the context window has got the   *)
(* summary of each owner's first turn. Both owners use the environment key. *)

TurnText(u) == <<"turno de ", u>>

SharedConversation(n) ==
    [i \in 1..n |-> ChatRow(i, IF i % 2 = 1 THEN "A" ELSE "B", 1,
                            IF (i \div 2) % 2 = 0 THEN "user" ELSE "assistant",
                            TurnText(IF i % 2 = 1 THEN "A" ELSE "B"))]

SharedSummaries(rows) ==
    IF Len(rows) <= 2 * AI_MAX_CONTEXT_MESSAGES THEN << >>
    ELSE update_conversation_summary(
             update_conversation_summary(<< >>, "A", 1, SummaryText(<<rows[1]>>)),
             "B", 1, SummaryText(<<rows[2]>>))

ConvInit ==
    /\ db = [i \in {1, 2} |-> SeedRow(IF i = 1 THEN "A" ELSE "B")]
    /\ nextId = 3
    /\ now = MaxTime - 1
    /\ provider = "openai"
    /\ env_key = "sk-env"
    /\ ephemeral = [u \in Owners |-> NoEntry]
    /\ lastExec = NoExec
    /\ steps = 0
    /\ GatewayIdle
    /\ AI_TOOLS_MODE = "heuristic"
    /\ \E n \in {4, 2 * (AI_MAX_CONTEXT_MESSAGES + 1)} :
          /\ chat = SharedConversation(n)
          /\ summaries = SharedSummaries(SharedConversation(n))
    /\ CompactIdle
    /\ StoreIdle
    /\ PackIdle
    /\ RaceIdle
    /\ AuthIdle

ConvSpec == ConvInit /\ [][Next]_vars

-----------------------------------------------------------------------------
(* The executor on its own: execute_tool called by any owner with any call *)

ToolInit ==
    /\ \E d \in InitDbs : db = d /\ nextId = Cardinality(DOMAIN d) + 1
    /\ now = 1
    /\ provider = "openai"
    /\ env_key = ""
    /\ ephemeral = [u \in Owners |-> NoEntry]
    /\ lastExec = NoExec
    /\ steps = 0
    /\ GatewayIdle
    /\ AI_TOOLS_MODE = "heuristic"
    /\ chat = << >>
    /\ CompactIdle
    /\ StoreIdle
    /\ PackIdle
    /\ RaceIdle
    /\ AuthIdle
    /\ summaries = << >>

ExecuteTool(u, c) ==
    /\ steps < MaxSteps
    /\ \E o \in execute_tool(db, u, c.name, c.tool_args) :
        /\ o.nextId <= MaxTx + 1
        /\ db' = o.db
        /\ nextId' = o.nextId
        /\ lastExec' = [user_id |-> u, name |-> c.name, tool_args |-> c.tool_args,
                        exc |-> o.exc, result |-> o.result]
    /\ steps' = steps + 1
    /\ UNCHANGED <<AI_TOOLS_MODE, chat, tools_sent, messages, sent, compactVars, storeVars, packVars, raceVars, authVars, summaries>>
    /\ UNCHANGED <<now, credentialVars, gatewayVars>>

ToolNext == \E u \in Owners, c \in ToolCalls : ExecuteTool(u, c)

ToolSpec == ToolInit /\ [][ToolNext]_vars

-----------------------------------------------------------------------------
(* The context pack on its own: packs built between writes to the table    *)
(* and ticks of the clock                                                   *)

\* process_chat_message builds the pack of the authenticated owner from the
\* table as it is now
BuildContextPack(u, tx_limit) ==
    /\ \E p \in build_finance_context_pack(db, u, now, tx_limit) :
         context_pack' = [pack |-> p, tx_limit |-> tx_limit,
                          built |-> 1 - context_pack.built]
    /\ UNCHANGED <<db, nextId, now, credentialVars, lastExec, steps, gatewayVars,
                   AI_TOOLS_MODE, chat, tools_sent, messages, sent, compactVars, storeVars, authVars, summaries,
                   raceVars>>

\* the calls that write to the table
PackCalls == {c \in ToolCalls : c.name \in {"create_transaction", "delete_transaction"}}

PackNext ==
    \/ \E u \in Owners, c \in PackCalls : ExecuteTool(u, c)
    \/ \E u \in Owners, l \in PackLimits : BuildContextPack(u, l)
    \/ Tick

PackSpec == ToolInit /\ [][PackNext]_vars

-----------------------------------------------------------------------------
(* Two requests whose loops run delete_transaction at the same time: each   *)
(* await of tool_delete_transaction is a point where the other may run      *)

DeleteInit ==
    /\ \E d \in InitDbs :
         /\ db = d
         /\ nextId = Cardinality(DOMAIN d) + 1
         /\ deletes \in [Requests ->
                {[DeleteCall("start", u, i) EXCEPT
                    !.existed = get_user_transaction(d, i, u) # NoneId] :
                 u \in Owners, i \in 1..MaxTx}]
    /\ keys_used = << >>
    /\ now = 1
    /\ provider = "openai"
    /\ env_key = ""
    /\ ephemeral = [u \in Owners |-> NoEntry]
    /\ lastExec = NoExec
    /\ steps = 0
    /\ GatewayIdle
    /\ AI_TOOLS_MODE = "heuristic"
    /\ chat = << >>
    /\ CompactIdle
    /\ StoreIdle
    /\ PackIdle
    /\ AuthIdle
    /\ summaries = << >>

\* transaction = await get_user_transaction(...); if not transaction: raise
\* ValueError, which the loop turns into an error entry
ReadForDelete(r) ==
    /\ deletes[r].pc = "start"
    /\ LET c == deletes[r]
           transaction == get_user_transaction(db, c.transaction_id, c.user_id)
       IN  deletes' = [deletes EXCEPT ![r] =
             IF transaction = NoneId
             THEN [c EXCEPT !.pc = "done",
                     !.result = ToolResult(0, "delete_transaction",
                         Raised(Exc("ValueError", "not_found_or_not_owned",
                                    c.transaction_id, {}), << >>))]
             ELSE [c EXCEPT !.pc = "read",
                     !.transaction = [id |-> transaction,
                                      amount |-> db[transaction].amount,
                                      category |-> db[transaction].category]]]
    /\ UNCHANGED <<db, nextId, now, credentialVars, lastExec, steps, gatewayVars,
                   AI_TOOLS_MODE, chat, tools_sent, messages, sent, compactVars,
                   storeVars, packVars, authVars, summaries, keys_used>>

\* deleted = await delete_user_transaction(...): the DELETE statement and its
\* commit; if not deleted: raise ValueError; else the dict is returned and the
\* loop tracks it in the metadata of the request
RunDelete(r) ==
    /\ deletes[r].pc = "read"
    /\ LET c == deletes[r]
           d == delete_user_transaction(db, c.transaction_id, c.user_id)
           returned == [EmptyResult EXCEPT !.kind = "deleted", !.id = c.transaction_id,
                           !.amount = c.transaction.amount,
                           !.category = c.transaction.category]
       IN  /\ db' = d.db
           /\ deletes' = [deletes EXCEPT ![r] =
                 IF ~d.deleted
                 THEN [c EXCEPT !.pc = "done",
                         !.result = ToolResult(0, "delete_transaction",
                             Raised(Exc("ValueError", "could_not_be_deleted",
                                        c.transaction_id, {}), << >>))]
                 ELSE [c EXCEPT !.pc = "done",
                         !.result = ToolResult(0, "delete_transaction",
                                               Returned(returned, << >>, 0)),
                         !.metadata = TrackMetadata(@, "delete_transaction", returned)]]
    /\ UNCHANGED <<nextId, now, credentialVars, lastExec, steps, gatewayVars,
                   AI_TOOLS_MODE, chat, tools_sent, messages, sent, compactVars,
                   storeVars, packVars, authVars, summaries, keys_used>>

DeleteNext == \E r \in Requests : ReadForDelete(r) \/ RunDelete(r)

DeleteSpec == DeleteInit /\ [][DeleteNext]_vars

-----------------------------------------------------------------------------
(* The auth routes on their own: login, refresh and logout in any order *)

\* The clock starts one period without remember_me before its last value: a
\* token issued at once without remember_me expires during the behaviour
AuthInit ==
    /\ db = << >>
    /\ nextId = 1
    /\ now = MaxTime - REFRESH_TOKEN_EXPIRE_DAYS
    /\ provider = "openai"
    /\ env_key = ""
    /\ ephemeral = [u \in Owners |-> NoEntry]
    /\ lastExec = NoExec
    /\ steps = 0
    /\ GatewayIdle
    /\ AI_TOOLS_MODE = "heuristic"
    /\ chat = << >>
    /\ CompactIdle
    /\ StoreIdle
    /\ PackIdle
    /\ RaceIdle
    /\ AuthIdle
    /\ summaries = << >>

\* The tokens a request can carry: none, one never issued (0), one issued
RequestTokens == {NoToken} \cup (0..issued)

\* POST /token of user u: wrong credentials are answered 401; else a new
\* token (secrets.token_urlsafe: one no request has carried) is persisted
\* and set as the cookie
Login(u, authenticated, remember_me) ==
    /\ issued < MaxTokens
    /\ IF ~authenticated
       THEN /\ auth' = [auth EXCEPT !.op = "login", !.token = NoToken, !.status = 401]
            /\ UNCHANGED <<refresh_tokens, issued>>
       ELSE LET raw_refresh_token == issued + 1 IN
            /\ issued' = issued + 1
            /\ refresh_tokens' = create_persistent_refresh_token(
                    refresh_tokens, u, raw_refresh_token,
                    get_refresh_token_expiry(remember_me, now))
            /\ auth' = [auth EXCEPT !.op = "login", !.token = raw_refresh_token,
                                    !.status = 200]
    /\ UNCHANGED <<db, nextId, now, credentialVars, lastExec, steps, gatewayVars,
                   AI_TOOLS_MODE, chat, tools_sent, messages, sent, compactVars,
                   storeVars, packVars, raceVars, summaries>>

\* POST /auth/refresh: the body token or else the cookie; 401 when there is
\* none or it is not valid, else a new access token
Refresh(body_token, cookie_token) ==
    /\ LET raw_refresh_token == IF body_token # NoToken THEN body_token ELSE cookie_token
           accepted == /\ raw_refresh_token # NoToken
                       /\ find_valid_refresh_token(refresh_tokens, raw_refresh_token, now) # {}
       IN  auth' = [auth EXCEPT
                      !.op = "refresh", !.token = raw_refresh_token,
                      !.status = IF accepted THEN 200 ELSE 401]
    /\ UNCHANGED <<refresh_tokens, issued>>
    /\ UNCHANGED <<db, nextId, now, credentialVars, lastExec, steps, gatewayVars,
                   AI_TOOLS_MODE, chat, tools_sent, messages, sent, compactVars,
                   storeVars, packVars, raceVars, summaries>>

\* POST /auth/logout: the token of the cookie, if any, is revoked; 204
Logout(cookie_token) ==
    /\ refresh_tokens' = IF cookie_token # NoToken
                         THEN revoke_refresh_token_by_raw(refresh_tokens, cookie_token, now)
                         ELSE refresh_tokens
    /\ auth' = [auth EXCEPT
                  !.op = "logout", !.token = cookie_token, !.status = 204,
                  !.logged_out = @ \cup ({cookie_token} \cap (1..issued))]
    /\ UNCHANGED issued
    /\ UNCHANGED <<db, nextId, now, credentialVars, lastExec, steps, gatewayVars,
                   AI_TOOLS_MODE, chat, tools_sent, messages, sent, compactVars,
                   storeVars, packVars, raceVars, summaries>>

AuthNext ==
    \/ \E u \in Owners, authenticated \in BOOLEAN, remember_me \in BOOLEAN :
            Login(u, authenticated, remember_me)
    \/ \E body_token \in RequestTokens, cookie_token \in RequestTokens :
            Refresh(body_token, cookie_token)
    \/ \E cookie_token \in RequestTokens : Logout(cookie_token)
    \/ Tick

AuthSpec == AuthInit /\ [][AuthNext]_vars

-----------------------------------------------------------------------------
(* compact_tool_result on its own: one result, one budget, one call *)

CompactInit ==
    /\ db = [i \in {1} |-> SeedRow("A")]
    /\ nextId = 2
    /\ now = 1
    /\ provider = "openai"
    /\ env_key = ""
    /\ ephemeral = [u \in Owners |-> NoEntry]
    /\ lastExec = NoExec
    /\ steps = 0
    /\ GatewayIdle
    /\ AI_TOOLS_MODE = "heuristic"
    /\ chat = << >>
    /\ max_chars \in Budgets
    /\ compact_in \in Results
    /\ compact_out = NoCompact
    /\ StoreIdle
    /\ PackIdle
    /\ RaceIdle
    /\ AuthIdle
    /\ summaries = << >>

CompactToolResult ==
    /\ compact_out = NoCompact
    /\ compact_out' = compact_tool_result(compact_in, max_chars)
    /\ UNCHANGED <<db, nextId, now, credentialVars, lastExec, steps, gatewayVars,
                   AI_TOOLS_MODE, chat, tools_sent, messages, sent, max_chars, compact_in, storeVars, packVars, raceVars, authVars, summaries>>

CompactNext == CompactToolResult

CompactSpec == CompactInit /\ [][CompactNext]_vars

-----------------------------------------------------------------------------
(* Requests of several owners on the ephemeral store. set_api_key and       *)
(* get_api_key are synchronous calls made on the event loop, with no await  *)
(* inside, so each one is a single step.                                    *)

CredInit ==
    /\ db = [i \in {1} |-> SeedRow("A")]
    /\ nextId = 2
    /\ now = 0
    /\ provider = "openai"
    /\ env_key = ""
    /\ ephemeral = [u \in Owners |-> NoEntry]
    /\ lastExec = NoExec
    /\ steps = 0
    /\ GatewayIdle
    /\ AI_TOOLS_MODE = "heuristic"
    /\ chat = << >>
    /\ CompactIdle
    /\ StoreIdle
    /\ PackIdle
    /\ RaceIdle
    /\ AuthIdle
    /\ summaries = << >>

\* POST /chat/api-key with the token of user u
SetApiKey(u) ==
    /\ \E secret \in SecretsOf(u) :
         /\ ephemeral' = set_ephemeral_api_key(u, secret, ephemeral)
         /\ stored' = [stored EXCEPT ![u] = [api_key |-> secret, at |-> now]]
    /\ UNCHANGED <<db, nextId, now, provider, env_key, lastExec, steps, gatewayVars,
                   AI_TOOLS_MODE, chat, tools_sent, messages, sent, compactVars, lookup, packVars, raceVars, authVars, summaries>>

\* get_api_key(u) as a request of user u calls it
GetApiKey(u) ==
    /\ LET r == get_api_key(u, ephemeral) IN
         /\ ephemeral' = r.store
         /\ lookup' = [user_id |-> u, at |-> now, key |-> r.key, seq |-> 1 - lookup.seq]
    /\ UNCHANGED <<db, nextId, now, provider, env_key, lastExec, steps, gatewayVars,
                   AI_TOOLS_MODE, chat, tools_sent, messages, sent, compactVars, stored, packVars, raceVars, authVars, summaries>>

CredNext ==
    \/ \E u \in Owners : SetApiKey(u)
    \/ \E u \in Owners : GetApiKey(u)
    \/ Tick

CredSpec == CredInit /\ [][CredNext]_vars

\* the same requests in a process that may have an environment key
EnvKeys == {"", BlankStr, "sk-env"}

EvictInit ==
    /\ db = [i \in {1} |-> SeedRow("A")]
    /\ nextId = 2
    /\ now = 0
    /\ provider \in {"openai", UnsupportedProvider}
    /\ env_key \in EnvKeys
    /\ ephemeral = [u \in Owners |-> NoEntry]
    /\ lastExec = NoExec
    /\ steps = 0
    /\ GatewayIdle
    /\ AI_TOOLS_MODE = "heuristic"
    /\ chat = << >>
    /\ CompactIdle
    /\ StoreIdle
    /\ PackIdle
    /\ RaceIdle
    /\ AuthIdle
    /\ summaries = << >>

EvictSpec == EvictInit /\ [][CredNext]_vars

-----------------------------------------------------------------------------
(* A request in flight while the owner's ephemeral key is replaced or       *)
(* expires: POST /chat/api-key and the clock run at the awaits of            *)
(* process_chat_message                                                      *)

\* The owner A holds an ephemeral key that expires at the next tick; there is
\* no environment key. The backend is one whose loop runs one batch or the
\* one whose loop runs two
FlightInit ==
    /\ db = [i \in {1} |-> SeedRow("A")]
    /\ nextId = 2
    /\ now = MaxTime - 1
    /\ provider \in {"openai", "gemini"}
    /\ env_key = ""
    /\ ephemeral = [u \in Owners |-> IF u = "A" THEN Entry("sk-a1", MaxTime) ELSE NoEntry]
    /\ lastExec = NoExec
    /\ steps = 0
    /\ GatewayIdle
    /\ AI_TOOLS_MODE = "heuristic"
    /\ chat = << >>
    /\ CompactIdle
    /\ StoreIdle
    /\ PackIdle
    /\ RaceIdle
    /\ AuthIdle
    /\ summaries = << >>

\* the positions of process_chat_message at an await, where the event loop
\* may run another handler: the provider calls and the tool executions
InFlight == pc \in {"first_call", "exec", "batch_done"}

\* the secret an owner replaces the stored one with
ReplacementOf(u) == IF u = "A" THEN "sk-a2" ELSE "sk-b2"

\* POST /chat/api-key of the owner of the request while the request runs
SetApiKeyInFlight ==
    /\ InFlight
    /\ ephemeral' = set_ephemeral_api_key(req.user_id, ReplacementOf(req.user_id), ephemeral)
    /\ UNCHANGED <<db, nextId, now, provider, env_key, lastExec, steps, gatewayVars,
                   AI_TOOLS_MODE, chat, tools_sent, messages, sent, compactVars,
                   storeVars, packVars, raceVars, authVars, summaries>>

\* the clock moves while the request runs
TickInFlight ==
    /\ InFlight
    /\ now < MaxTime
    /\ now' = now + 1
    /\ UNCHANGED <<AI_TOOLS_MODE, chat, tools_sent, messages, sent, compactVars, storeVars, packVars, raceVars, authVars, summaries>>
    /\ UNCHANGED <<db, nextId, credentialVars, lastExec, steps, gatewayVars>>

FlightNext ==
    \/ Next
    \/ SetApiKeyInFlight
    \/ TickInFlight

FlightSpec == FlightInit /\ [][FlightNext]_vars

-----------------------------------------------------------------------------
(* C1: termination and resources of the tool loop *)

C1Cap == IF provider = "gemini" THEN 2 ELSE 1

Running == {"check_key", "first_call", "loop", "exec", "batch_done", "finalize"}

\* A variant of process_chat_message: a natural number that every step of a
\* running request makes smaller. One iteration of the while loop is worth
\* C1Block: its test, one step per tool call and the follow-up call.
C1Block == MaxCalls + 3

C1Rank ==
    LET left == (C1Cap - tool_iterations) * C1Block IN
    CASE pc = "check_key" -> C1Cap * C1Block + 4
      [] pc = "first_call" -> C1Cap * C1Block + 3
      [] pc = "loop" -> left + 2
      [] pc = "exec" -> left + 4 + Len(current_response.tool_calls) - idx
      [] pc = "batch_done" -> left + 3
      [] pc = "finalize" -> 1
      [] OTHER -> 0

C1Bounded ==
    /\ tool_iterations <= C1Cap
    /\ providerCalls <= 1 + C1Cap
    /\ C1Rank >= 0
    /\ (pc = "returned" /\ outcome.error # "" =>
            /\ provider = "gemini"
            /\ outcome.error \in GeminiErrors \cup {ApiError}
            /\ llm_status \in {"error_tag", "raised"})

C1Decreases ==
    pc \in Running /\ (pc' # pc \/ idx' # idx) => C1Rank' < C1Rank /\ pc' # "idle"

\* C1 (amended): for every provider behaviour process_chat_message stops
\* (it returns or raises) after at most 2 batches of tool calls when the
\* provider is gemini and 1 otherwise, and at most 1 + that many provider
\* calls; a reply it returns carries an error tag only when the provider is
\* gemini and a provider call of the request failed.
C1Terminates == [](C1Bounded) /\ [][C1Decreases]_vars

\* gemini asks for tools on every call: two batches, three provider calls,
\* and the reply returned without an error tag still carries tool calls
C1Witness ==
    /\ pc = "returned"
    /\ provider = "gemini"
    /\ tool_iterations = 2
    /\ providerCalls = 3
    /\ outcome.tool_calls > 0
    /\ outcome.error = ""

\* C1 as stated: whatever the provider does, the request ends in a normal
\* response without an error tag, within the caps
C1AlwaysNormalResponse ==
    /\ tool_iterations <= C1Cap
    /\ providerCalls <= 1 + C1Cap
    /\ pc # "raised"
    /\ (pc = "returned" => outcome.error = "")

-----------------------------------------------------------------------------
(* C2: every tool invocation is scoped to the calling owner *)

C2Mine(d, u) == [i \in {j \in DOMAIN d : d[j].user_id = u} |-> d[i]]

C2Signal(o) == [exc |-> o.exc, result |-> o.result]

\* What a call of execute_tool does to the table and hands back, for caller u
C2Scoped ==
    steps' # steps =>
        LET u == lastExec'.user_id
            others == {i \in DOMAIN db : db[i].user_id # u}
        IN  /\ \A i \in others : i \in DOMAIN db' /\ db'[i] = db[i]
            /\ \A i \in DOMAIN db' \ DOMAIN db : db'[i].user_id = u
            /\ \E o \in execute_tool(C2Mine(db, u), u, lastExec'.name,
                                     lastExec'.tool_args) :
                  C2Signal(o) = C2Signal(lastExec')

\* C2: whatever tool an owner calls, with whatever payload (one naming
\* another owner included), the rows of every other owner stay as they are,
\* a row that appears belongs to the caller, and what the call hands back is
\* what it can hand back on a table holding the caller's rows only.
C2OwnerScoped == [][C2Scoped]_vars

\* A called with a payload naming B while B has rows, and the call succeeded
C2Witness ==
    /\ lastExec.user_id = "A"
    /\ lastExec.tool_args.args.user_id = "B"
    /\ lastExec.exc = NoExc
    /\ lastExec.name \in {"create_transaction", "list_transactions", "analyze_spending"}
    /\ \E i \in DOMAIN db : db[i].user_id = "B"

-----------------------------------------------------------------------------
(* C3: a missing id and another owner's id can not be told apart *)

C3Masked(o) == [cls |-> o.exc.cls, code |-> o.exc.code, fields |-> o.exc.fields,
                result |-> o.result]

C3Signals(u, name, a, i) ==
    {C3Masked(o) : o \in execute_tool(db, u, name, Obj([a EXCEPT !.transaction_id = i]))}

C3Step ==
    (/\ steps' # steps
     /\ lastExec'.name \in {"update_transaction", "delete_transaction"}
     /\ lastExec'.tool_args.object) =>
        LET u == lastExec'.user_id
            a == lastExec'.tool_args.args
            foreign == {i \in DOMAIN db : db[i].user_id # u}
        IN  /\ a.transaction_id \in foreign =>
                /\ C3Masked(lastExec') \in C3Signals(u, lastExec'.name, a, MissingId)
                /\ db' = db
            /\ a.transaction_id = MissingId =>
                /\ \A f \in foreign : C3Masked(lastExec') \in C3Signals(u, lastExec'.name, a, f)
                /\ db' = db

\* C3: for update_transaction and delete_transaction, any caller and any
\* payload, what the call answers for the id of another owner's row is an
\* answer the same call has for an id no row has, and the other way round
\* (same error, the id apart); both leave the table as it was.
C3Indistinguishable == [][C3Step]_vars

\* an owner asked to update or delete a row of another owner and was told
\* "not found or not owned"
C3Witness ==
    /\ lastExec.name \in {"update_transaction", "delete_transaction"}
    /\ lastExec.tool_args.object
    /\ lastExec.tool_args.args.transaction_id \in DOMAIN db
    /\ db[lastExec.tool_args.args.transaction_id].user_id # lastExec.user_id
    /\ lastExec.exc.code = "not_found_or_not_owned"

-----------------------------------------------------------------------------
(* The declared argument schemas: TOOLS of app/ai/tools.py, the JSON schema *)
(* that is sent to the model for each tool                                  *)

\* "minimum": 0.01 of amount, in mills
AmountMinimum == 10

DeclaredNumber(x, lo) == x.t # "number" \/ x.v < lo
DeclaredInteger(x, lo, hi) == x.t # "number" \/ x.v < lo \/ x.v > hi

\* The fields of a payload that violate the declaration of the tool
TOOLS(tool_name, tool_args) ==
    LET a == tool_args.args IN
    IF ~tool_args.object THEN {"<arguments>"}
    ELSE IF tool_name = "list_transactions"
    THEN {f \in {"limit"} : IsPresent(a.limit) /\ DeclaredInteger(a.limit, LimitMin, LimitMax)}
         \cup {f \in {"from_date"} : a.from_date = BadDate}
         \cup {f \in {"to_date"} : a.to_date = BadDate}
    ELSE IF tool_name = "create_transaction"
    THEN {f \in {"amount"} : DeclaredNumber(a.amount, AmountMinimum)}
         \cup {f \in {"type"} : a.type \notin TxTypes}
         \cup {f \in {"category"} : a.category \in {AbsentStr, WrongTypeStr}}
         \cup {f \in {"description"} : a.description = WrongTypeStr}
         \cup {f \in {"occurred_at"} : a.occurred_at = BadDate}
    ELSE IF tool_name = "analyze_spending"
    THEN {f \in {"group_by"} : a.group_by # AbsentStr /\ a.group_by \notin GroupBys}
         \cup {f \in {"top_n"} : IsPresent(a.top_n) /\ DeclaredInteger(a.top_n, TopNMin, TopNMax)}
         \cup {f \in {"from_date"} : a.from_date = BadDate}
         \cup {f \in {"to_date"} : a.to_date = BadDate}
    ELSE IF tool_name = "update_transaction"
    THEN {f \in {"transaction_id"} : a.transaction_id \in {AbsentId, BadId}}
         \cup {f \in {"amount"} : IsPresent(a.amount) /\ DeclaredNumber(a.amount, AmountMinimum)}
         \cup {f \in {"type"} : a.type # AbsentStr /\ a.type \notin TxTypes}
         \cup {f \in {"category"} : a.category = WrongTypeStr}
         \cup {f \in {"description"} : a.description = WrongTypeStr}
         \cup {f \in {"occurred_at"} : a.occurred_at = BadDate}
    ELSE IF tool_name = "delete_transaction"
    THEN {f \in {"transaction_id"} : a.transaction_id \in {AbsentId, BadId}}
    ELSE {}

-----------------------------------------------------------------------------
(* C4: a failing tool call is caught per call *)

\* C4: a failure of one tool call (arguments that do not parse, a schema
\* violation, an unknown tool, a row not found) becomes an error result: the
\* request raises only out of its first provider call, never out of the tool
\* loop, and a finished batch holds one result per tool call of the response.
C4PerCallFailureCaught ==
    /\ (pc = "raised" => tool_iterations = 0)
    /\ (pc = "batch_done" => Len(tool_results) = Len(current_response.tool_calls))

-----------------------------------------------------------------------------
(* C5: invalid arguments fail and leave the table alone *)

C5Step ==
    (/\ steps' # steps
     /\ lastExec'.name \in ToolNames
     /\ TOOLS(lastExec'.name, lastExec'.tool_args) # {}) =>
        lastExec'.exc # NoExc /\ db' = db

\* C5: for each of the six tools, a call whose payload violates the declared
\* schema of the tool (a value of the wrong type, a value out of range, a
\* required field missing) fails and leaves every owner's rows as they were.
C5InvalidArgumentsFail == [][C5Step]_vars

-----------------------------------------------------------------------------
(* C6: amounts are positive *)

C6Step ==
    (/\ steps' # steps
     /\ lastExec'.name \in {"create_transaction", "update_transaction"}
     /\ lastExec'.tool_args.object
     /\ IsNumeric(lastExec'.tool_args.args.amount)
     /\ lastExec'.tool_args.args.amount.v <= 0) =>
        lastExec'.exc # NoExc /\ db' = db

C6Positive == \A i \in DOMAIN db : db[i].amount > 0

\* C6: create_transaction and update_transaction fail on an amount of 0 or
\* less and change nothing; and no sequence of tool calls leaves a row whose
\* persisted amount is 0 or less.
C6NoNonPositiveAmount == [](C6Positive) /\ [][C6Step]_vars

-----------------------------------------------------------------------------
(* C7: no credential, no provider call *)

\* no environment key for the configured provider and no unexpired
\* ephemeral key of the owner (a key of blanks only is no key)
C7NoCredential ==
    /\ provider \notin Providers \/ Strip(env_key) = ""
    /\ Strip(ephemeral[req.user_id].key) = "" \/ now >= ephemeral[req.user_id].expires_at

C7Step ==
    (pc = "check_key" /\ pc' # "check_key" /\ C7NoCredential) =>
        /\ pc' = "returned"
        /\ outcome' = Return(NeedsKeyText, "", TRUE, 0, EmptyMeta)
        /\ providerCalls' = 0
        /\ lastExec' = NoExec
        /\ db' = db

C7Reply ==
    outcome.needs_api_key =>
        /\ pc \in {"returned", "responded"}
        /\ outcome.kind = "returned"
        /\ outcome.metadata = EmptyMeta
        /\ providerCalls = 0
        /\ llm_status = "none"
        /\ lastExec = NoExec

\* C7: when the owner has no environment key for the configured provider
\* and no unexpired ephemeral key, process_chat_message returns (it does not
\* raise) the reply flagged needs_api_key with empty metadata, having called
\* neither the provider nor any tool, and the table is as it was.
C7NeedsKeyReply == [](C7Reply) /\ [][C7Step]_vars

\* the ephemeral key of A had expired when the request came: it was evicted
\* and the request answered 201 with the needs-key reply
C7Witness ==
    /\ pc = "responded"
    /\ http.status = 201
    /\ outcome.needs_api_key
    /\ req.user_id = "A"
    /\ env_key = BlankStr
    /\ now = MaxTime
    /\ ephemeral["A"] = NoEntry

-----------------------------------------------------------------------------
(* C8: the metadata mirrors the successful mutating calls *)

C8Mutating == {"create_transaction", "update_transaction", "delete_transaction"}

C8Succeeded(r) == r.error = "" /\ r.name \in C8Mutating

C8CardOf(name) == IF name = "delete_transaction" THEN "info_card" ELSE "success_card"

C8Reflects(m, results) ==
    LET ok == SelectSeq(results, C8Succeeded) IN
    /\ Len(m.ui_events) = Len(ok)
    /\ \A i \in DOMAIN ok :
          /\ m.ui_events[i].type = C8CardOf(ok[i].name)
          /\ m.ui_events[i].id = ok[i].result.id
          /\ m.ui_events[i].amount = ok[i].result.amount
    /\ m.did_create_transaction <=> \E i \in DOMAIN ok : ok[i].name = "create_transaction"
    /\ m.did_update_transaction <=> \E i \in DOMAIN ok : ok[i].name = "update_transaction"
    /\ m.did_delete_transaction <=> \E i \in DOMAIN ok : ok[i].name = "delete_transaction"

\* C8: the metadata a request returns, and the metadata it holds while its
\* batches run, has one event per tool call that was a create, update or
\* delete and returned without error, in execution order over all batches
\* (success_card for create and update, info_card for delete), and each
\* did_* flag is set exactly when such a call of its kind exists; failed
\* calls, read-only tools and unknown tools leave no trace.
C8MetadataReflectsMutations ==
    /\ pc \in {"exec", "batch_done"} => C8Reflects(metadata, all_tool_results \o tool_results)
    /\ pc \in {"loop", "finalize"} => C8Reflects(metadata, all_tool_results)
    /\ pc = "returned" => C8Reflects(outcome.metadata, all_tool_results)

\* two batches: two successful mutating calls and one call that failed or
\* only read, and the reply reports exactly the two
C8Witness ==
    /\ pc = "returned"
    /\ tool_iterations = 2
    /\ Len(all_tool_results) = 3
    /\ Len(outcome.metadata.ui_events) = 2
    /\ outcome.metadata.did_create_transaction
    /\ outcome.metadata.did_delete_transaction
    /\ \E i \in DOMAIN all_tool_results : all_tool_results[i].error # ""

-----------------------------------------------------------------------------
(* C9: a provider call that raises inside the tool loop *)

C9RaisedInLoop == llm_status = "raised" /\ providerCalls >= 2

C9Finalized ==
    C9RaisedInLoop =>
        /\ pc \in {"finalize", "returned", "responded"}
        /\ current_response.tool_calls # << >>
        /\ \A i \in DOMAIN current_response.tool_calls : current_response.tool_calls[i].id # Unread.id
        /\ pc # "finalize" =>
              /\ outcome.kind = "returned"
              /\ outcome.error = ""
              /\ outcome.content = FinalContent(current_response, all_tool_results)
              /\ outcome.tool_calls = Len(current_response.tool_calls)
              /\ outcome.metadata = metadata
              /\ C8Reflects(outcome.metadata, all_tool_results)
        /\ http.status \in {0, 201}

C9Step ==
    C9RaisedInLoop' =>
        /\ db' = db
        /\ metadata' = metadata
        /\ current_response' = current_response

\* C9: when the second or a later provider call of a request raises,
\* process_chat_message does not raise: the loop stops there, the response
\* whose batch was just executed is finalized and returned without an error
\* tag, the table keeps what the executed tools wrote, and the returned
\* metadata is the metadata of those tools.
C9BreakAndFinalize == [](C9Finalized) /\ [][C9Step]_vars

\* gemini: the follow-up call of the first batch raised; the reply reports
\* the transaction the batch created, and its row is in the table
C9Witness ==
    /\ pc = "returned"
    /\ C9RaisedInLoop
    /\ provider = "gemini"
    /\ tool_iterations = 1
    /\ outcome.metadata.did_create_transaction
    /\ outcome.metadata.created_transaction_id \in DOMAIN db

-----------------------------------------------------------------------------
(* C10: what the route answers when process_chat_message raises *)

\* C10: whatever process_chat_message raises, a ValueError included, the
\* route answers 502 with a fixed text that holds nothing of the exception.
C10GenericBadGateway ==
    (pc = "responded" /\ outcome.kind = "raised") =>
        /\ http.status = 502
        /\ ~Contains(http.detail, outcome.exc.text)

-----------------------------------------------------------------------------
(* C11: what a failed exchange leaves in the conversation record *)

\* C11: when POST /chat/messages has answered 502, the conversation of the
\* owner holds what it held before the request: neither the user message of
\* the failed exchange nor an assistant message.
C11NoPartialExchange ==
    (pc = "responded" /\ http.status = 502) =>
        list_recent_messages(chat, req.user_id, req.conversation_id,
                             AI_MAX_CONTEXT_MESSAGES) = req.recent_messages

-----------------------------------------------------------------------------
(* C12: mode never *)

\* C12: with AI_TOOLS_MODE = never no provider call of a request carries the
\* tool definitions, whatever the text and the prior turns, on the first
\* call and on every follow-up call.
C12NeverAttached ==
    AI_TOOLS_MODE = "never" => \A i \in DOMAIN tools_sent : ~tools_sent[i]

-----------------------------------------------------------------------------
(* C13: the first call and the tool set *)

\* the text of the most recent assistant turn among the prior messages
\* (the empty text when there is none)
C13PriorAssistantText(prior) ==
    LET turns == {i \in DOMAIN prior : prior[i].role = "assistant"} IN
    IF turns = {} THEN << >>
    ELSE prior[CHOOSE i \in turns : \A j \in turns : j <= i].content

C13HasKeyword(text) == \E k \in action_keywords : Contains(LowerText(text), k)

C13HasMarker(text) == \E k \in clarification_markers : Contains(LowerText(text), k)

\* The decision as a function of the mode, the text and the prior assistant text
C13Decision(mode, text, prior_text) ==
    CASE mode = "always" -> TRUE
      [] mode = "heuristic" -> C13HasKeyword(text) \/ C13HasMarker(prior_text)
      [] mode = "never" -> C13HasMarker(prior_text)
      [] OTHER -> (\E k \in finance_keywords : Contains(LowerText(text), k))
                  \/ C13HasMarker(prior_text)

C13Step ==
    (tools_sent = << >> /\ tools_sent' # << >>) =>
        /\ Len(tools_sent') = 1
        /\ tools_sent'[1] = C13Decision(AI_TOOLS_MODE, req.text,
                                        C13PriorAssistantText(req.recent_messages))
        /\ AI_TOOLS_MODE = "always" => tools_sent'[1]
        /\ AI_TOOLS_MODE = "heuristic" =>
              (tools_sent'[1] <=>
                  \/ C13HasKeyword(req.text)
                  \/ C13HasMarker(C13PriorAssistantText(req.recent_messages)))

\* C13: whether the first provider call of a request carries the tool set
\* is fixed by the mode, the text and the text of the most recent assistant
\* turn of the prior messages: in mode always it does; in mode heuristic it
\* does exactly when the text holds an action keyword or that assistant turn
\* holds a clarification marker.
C13FirstCallTools == [][C13Step]_vars

\* heuristic mode: the bare reply "50" after "Foi despesa ou receita?" went
\* out with the tools
C13Witness ==
    /\ AI_TOOLS_MODE = "heuristic"
    /\ req.text = BareText
    /\ C13PriorAssistantText(req.recent_messages) = ClarifyingText
    /\ tools_sent = <<TRUE>>
    /\ providerCalls = 1

-----------------------------------------------------------------------------
(* C14: a mode that is none of the three *)

C14Step ==
    (tools_sent = << >> /\ tools_sent' # << >> /\ AI_TOOLS_MODE \notin ToolModes) =>
        tools_sent'[1] = req.include_context_pack

\* C14: with a configured mode that is none of always, never, heuristic, the
\* first provider call carries the tools exactly when the context-pack flag
\* is true, whatever keywords the text holds and whatever the prior turns.
C14FlagAlone == [][C14Step]_vars

-----------------------------------------------------------------------------
(* C15: a response with content is the reply *)

\* process_chat_message has returned after obtaining a response
C15Replied == pc \in {"returned", "responded"} /\ outcome.kind = "returned" /\ llm_status # "none"

\* C15: when the last response obtained from the provider has content, the
\* reply process_chat_message returns has that very content, whatever tools
\* ran or failed in the request.
C15ContentVerbatim ==
    (C15Replied /\ current_response.content # "") =>
        outcome.content = current_response.content

\* a tool returned, another failed, and the reply is the content of the
\* response that came after them
C15Witness ==
    /\ C15Replied
    /\ current_response.content = "Pronto!"
    /\ outcome.content = "Pronto!"
    /\ llm_status = "ok"
    /\ \E i \in DOMAIN all_tool_results : all_tool_results[i].error = ""
    /\ \E i \in DOMAIN all_tool_results : all_tool_results[i].error # ""

-----------------------------------------------------------------------------
(* C16: the confirmation sentence for a response without content *)

C16Successful == {all_tool_results[i].name : i \in {j \in DOMAIN all_tool_results :
                                                       all_tool_results[j].error = ""}}

C16Sentence(names) ==
    CASE "update_transaction" \in names -> "Transação atualizada com sucesso!"
      [] "update_transaction" \notin names /\ "delete_transaction" \in names ->
            "Transação excluída com sucesso!"
      [] {"update_transaction", "delete_transaction"} \cap names = {}
         /\ "create_transaction" \in names -> "Transação registrada com sucesso!"
      [] OTHER -> "Operação realizada com sucesso!"

\* C16: when the last response has no content and at least one tool call of
\* the request, of any iteration, returned without error, the reply is the
\* fixed sentence for update_transaction if it is among the successful
\* tools, else the one for delete_transaction, else the one for
\* create_transaction, else the generic one.
C16ConfirmationByPriority ==
    (C15Replied /\ current_response.content = "" /\ C16Successful # {}) =>
        outcome.content = C16Sentence(C16Successful)

\* gemini, two batches: a create and an update both returned, the last
\* response had no content, and the reply is the sentence of the update
C16Witness ==
    /\ C15Replied
    /\ current_response.content = ""
    /\ {"create_transaction", "update_transaction"} \subseteq C16Successful
    /\ tool_iterations = 2
    /\ outcome.content = "Transação atualizada com sucesso!"

-----------------------------------------------------------------------------
(* C17: every reply carries the metadata of the request *)

\* C17: whatever path process_chat_message returns by (no credential, an
\* error-tagged response of the first or of a later call, the early exit
\* after a provider call failed inside the loop, the normal end), the reply
\* holds the metadata the request has accumulated: all flags false and no
\* event when no tool ran.
C17MetadataAttached ==
    (pc \in {"returned", "responded"} /\ outcome.kind = "returned") =>
        /\ outcome.metadata = metadata
        /\ lastExec = NoExec => outcome.metadata = EmptyMeta

\* gemini: the first batch created a transaction, the follow-up call came
\* back error-tagged, and the reply reports the creation
C17Witness ==
    /\ pc = "returned"
    /\ outcome.error \in GeminiErrors
    /\ providerCalls = 2
    /\ outcome.metadata.did_create_transaction
    /\ Len(outcome.metadata.ui_events) = 1

-----------------------------------------------------------------------------
(* C18: the compacted text and the character budget *)

\* C18: the text compact_tool_result returns is never longer than
\* AI_TOOL_RESULTS_MAX_CHARS, whatever the result.
C18WithinBudget ==
    compact_out # NoCompact => Len(compact_out.result_str) <= max_chars

-----------------------------------------------------------------------------
(* C19: long lists in a mapping-valued result *)

\* What becomes of the value v of a mapping: w, the value that is serialised
C19ListCut(v, w) ==
    /\ (v.t = "list" /\ Len(v.items) > ListKeep) =>
          /\ w.t = "list"
          /\ Len(w.items) = ListKeep + 1
          /\ \A j \in 1..ListKeep : w.items[j] = v.items[j]
          /\ w.items[ListKeep + 1] = JStr(MoreItems(Len(v.items) - ListKeep))
    /\ (v.t = "list" /\ Len(v.items) <= ListKeep) => w = v

C19Compacted ==
    /\ compact_out.compacted.t = "dict"
    /\ Len(compact_out.compacted.items) = Len(compact_in.items)
    /\ \A i \in DOMAIN compact_in.items :
          /\ compact_out.compacted.items[i].key = compact_in.items[i].key
          /\ C19ListCut(compact_in.items[i].value, compact_out.compacted.items[i].value)

C19Called == compact_out # NoCompact /\ compact_in.t = "dict"

\* C19 (amended): in a mapping-valued result every list value of more than
\* 10 entries is replaced, before the result is serialised, by its first 10
\* entries in their order followed by one entry "... (n - 10 more items)",
\* and a list of at most 10 entries is kept whole; the text returned is that
\* serialisation when it fits AI_TOOL_RESULTS_MAX_CHARS, and else its first
\* AI_TOOL_RESULTS_MAX_CHARS characters followed by "... (truncated)".
C19ListsCompacted ==
    C19Called =>
        /\ C19Compacted
        /\ LET full == dumps(compact_out.compacted) IN
           compact_out.result_str =
               IF Len(full) <= max_chars THEN full
               ELSE SubSeq(full, 1, max_chars) \o Truncated

\* a list of 50 entries under the default budget: 11 entries, all in the text
C19Witness ==
    /\ C19Called
    /\ max_chars = AI_TOOL_RESULTS_MAX_CHARS
    /\ compact_in.items # << >>
    /\ Len(compact_in.items[1].value.items) = LimitDefault
    /\ Len(compact_out.compacted.items[1].value.items) = ListKeep + 1
    /\ compact_out.result_str = dumps(compact_out.compacted)

\* C19 as stated: the compacted text always shows the first 10 entries and
\* the marker entry
C19TextShowsEntries ==
    C19Called => C19Compacted /\ compact_out.result_str = dumps(compact_out.compacted)

-----------------------------------------------------------------------------
(* C20: the ephemeral store is keyed by owner *)

\* the secrets of the owners other than u, as the store holds them
C20SecretsOfOthers(u) == {Strip(k) : k \in UNION {SecretsOf(o) : o \in Owners \ {u}}} \ {""}

\* what a lookup of u must find: the secret u stored last, stripped, while
\* the time is before its expiry, and nothing otherwise
C20Expected(u) ==
    IF stored[u] # NoStored /\ now < stored[u].at + TtlTicks
    THEN Strip(stored[u].api_key)
    ELSE ""

\* C20: with no environment key, in every interleaving of set_api_key and
\* get_api_key calls of different owners, get_api_key(owner) finds the secret
\* that owner stored most recently, and only while the time is before its
\* expires_at; it never finds a secret stored for another owner
C20KeyedByOwner ==
    [][lookup' # lookup =>
          /\ lookup'.key = C20Expected(lookup'.user_id)
          /\ lookup'.key \notin C20SecretsOfOthers(lookup'.user_id)]_vars

\* A finds its secret sk-a2 while the store holds a live secret of B
C20Witness ==
    /\ lookup.user_id = "A"
    /\ lookup.key = "sk-a2"
    /\ stored["A"].api_key = "sk-a2"
    /\ stored["B"].api_key = "sk-b1"
    /\ ephemeral["B"] = Entry("sk-b1", lookup.at + TtlTicks)

-----------------------------------------------------------------------------
(* C21: lazy eviction of an expired credential *)

\* the entry of u is in the store and the time is at or past its expires_at
C21Expired(u) == ephemeral[u] # NoEntry /\ now >= ephemeral[u].expires_at

\* the store is consulted: no environment key answers for the provider
C21StoreConsulted == ~(provider \in Providers /\ Strip(env_key) # "")

\* C21 as stated: the first get_api_key call of an owner at or after
\* expires_at removes the owner's entry, whatever the configuration
C21EvictedOnAnyLookup ==
    [][lookup' # lookup /\ C21Expired(lookup'.user_id)
          => ephemeral'[lookup'.user_id] = NoEntry]_vars

\* C21: when no environment key answers for the provider, a get_api_key call
\* of an owner made at or after the expires_at of the owner's entry removes
\* that entry and finds no key, and after any such call the store holds no
\* expired entry of that owner
C21LazilyEvicted ==
    [][lookup' # lookup /\ C21StoreConsulted =>
          /\ C21Expired(lookup'.user_id) =>
                /\ ephemeral'[lookup'.user_id] = NoEntry
                /\ lookup'.key = ""
          /\ \/ ephemeral'[lookup'.user_id] = NoEntry
             \/ now < ephemeral'[lookup'.user_id].expires_at]_vars

\* A's lookup after the expiry of its secret found nothing and left no entry
C21Witness ==
    /\ C21StoreConsulted
    /\ lookup.user_id = "A"
    /\ stored["A"].api_key = "sk-a1"
    /\ lookup.at >= stored["A"].at + TtlTicks
    /\ lookup.key = ""
    /\ ephemeral["A"] = NoEntry
    /\ ephemeral["B"] # NoEntry

-----------------------------------------------------------------------------
(* C22: the error tags of the gemini backend *)

-----------------------------------------------------------------------------
(* C23: what analyze_spending reports *)

\* the rows analyze_spending of user u with payload a is about
C23Rows(u, a) ==
    {i \in DOMAIN db : /\ db[i].user_id = u
                       /\ db[i].type = "EXPENSE"
                       /\ (a.from_date = AbsentDate \/ db[i].occurred_at >= a.from_date)
                       /\ (a.to_date = AbsentDate \/ db[i].occurred_at <= a.to_date)}

C23GroupBy(a) == IF a.group_by = AbsentStr THEN "category" ELSE a.group_by

\* the rows of one group, and their sum
C23Members(u, a, k) == {i \in C23Rows(u, a) : GroupKey(db[i], C23GroupBy(a)) = k}
C23Sum(S) == SumOver(S, [i \in S |-> db[i].amount])

C23Step ==
    steps' # steps /\ lastExec'.name = "analyze_spending" /\ lastExec'.exc = NoExc =>
        LET u == lastExec'.user_id
            a == lastExec'.tool_args.args
            r == lastExec'.result
            keys == {GroupKey(db[i], C23GroupBy(a)) : i \in C23Rows(u, a)}
            listed == {r.groups[j].group : j \in DOMAIN r.groups}
        IN  /\ r.group_by = C23GroupBy(a)
            /\ listed \subseteq keys
            /\ \A i, j \in DOMAIN r.groups : r.groups[i].group = r.groups[j].group => i = j
            /\ \A j \in DOMAIN r.groups :
                  r.groups[j].total = C23Sum(C23Members(u, a, r.groups[j].group))
            /\ \A i, j \in DOMAIN r.groups : i < j => r.groups[i].total >= r.groups[j].total
            /\ \A k \in keys \ listed : \A j \in DOMAIN r.groups :
                  r.groups[j].total >= C23Sum(C23Members(u, a, k))
            /\ Len(r.groups) = IF IsPresent(a.top_n)
                               THEN Min(a.top_n.v, Cardinality(keys))
                               ELSE Cardinality(keys)
            /\ r.total = C23Sum(C23Rows(u, a))
            /\ db' = db

\* C23: analyze_spending takes the caller's EXPENSE rows inside the optional
\* date range, groups them by the requested key, lists the groups by total
\* descending, cut to the first top_n when top_n is given, and reports as
\* total the sum of all the rows it took, groups cut off included
C23Analysis == [][C23Step]_vars

\* two months of expenses of A, top_n = 1: the larger month alone is listed
\* and the total counts both
C23Witness ==
    /\ lastExec.name = "analyze_spending"
    /\ lastExec.user_id = "A"
    /\ lastExec.exc = NoExc
    /\ lastExec.tool_args.args.top_n = Num(TopNMin)
    /\ Len(lastExec.result.groups) = 1
    /\ lastExec.result.groups[1].total = SeedRow("A").amount
    /\ lastExec.result.total > lastExec.result.groups[1].total

-----------------------------------------------------------------------------
(* C24: what the context pack reports *)

\* the rows of u that occurred in the month of the clock
C24ThisMonth(u) ==
    {i \in DOMAIN db : db[i].user_id = u /\ MonthOf(db[i].occurred_at) = MonthOf(now)}

C24Sum(S) == SumOver(S, [i \in S |-> db[i].amount])

C24Step ==
    context_pack'.built # context_pack.built =>
        LET p == context_pack'.pack
            month == C24ThisMonth(p.user_id)
            top == p.top_expense_categories
        IN  /\ p.income_total = C24Sum({i \in month : db[i].type = "INCOME"})
            /\ p.expense_total = C24Sum({i \in month : db[i].type = "EXPENSE"})
            /\ Len(top) <= TopCategories
            /\ \A j \in DOMAIN top :
                  top[j].amount = C24Sum({i \in month : /\ db[i].type = "EXPENSE"
                                                         /\ db[i].category = top[j].category})
            /\ \A i, j \in DOMAIN top : i < j => top[i].amount >= top[j].amount
            /\ Len(p.recent_transactions) <= context_pack'.tx_limit

\* C24: a pack built for an owner reports as month_to_date income_total and
\* expense_total the sums of that owner's INCOME and EXPENSE rows that
\* occurred in the current month, as top_expense_categories at most 5
\* expense categories of the month by amount descending, and at most
\* tx_limit recent transactions, all from the table as it is at that time
C24MonthToDate == [][C24Step]_vars

-----------------------------------------------------------------------------
(* C25: the fields an "Invalid arguments" error names *)

C25Step ==
    (/\ steps' # steps
     /\ lastExec'.name \in ToolNames
     /\ lastExec'.exc.code = "invalid_arguments") =>
        lastExec'.exc.fields = TOOLS(lastExec'.name, lastExec'.tool_args)

\* C25: when the validation of a call's arguments fails, the fields that the
\* "Invalid arguments for <tool>" error names are exactly the fields of the
\* payload that violate the schema of the tool, every one of them
C25NamesEveryField == [][C25Step]_vars

-----------------------------------------------------------------------------
(* C26: what reaches the provider on behalf of an owner *)

\* the entries the owner's own persisted messages of the conversation make
C26OwnMessages(u, c) ==
    {HistoryMessage(chat[k]) :
        k \in {j \in DOMAIN chat : chat[j].user_id = u /\ chat[j].conversation_id = c}}

\* the entries the summaries persisted under the owner make
C26OwnSummaries(u) ==
    {SummaryMessage(summaries[k].summary) :
        k \in {j \in DOMAIN summaries : summaries[j].user_id = u}}

C26Own(m, own) ==
    \/ m = SystemPromptMessage
    \/ m.pack # NoPack /\ m.pack.user_id = req.user_id
    \/ m \in own
    \/ m.tool_calls # << >>
    \/ m.results # << >>

\* C26: every entry of every message sequence passed to the provider during
\* a request of an owner is the system prompt, a summary persisted under
\* that owner, a context pack of that owner, a message persisted under that
\* owner in the conversation of the request, or an entry the tool loop
\* appended; no message and no summary of another owner is among them,
\* whoever else uses the conversation id.
C26OwnerOnly ==
    pc \notin {"idle", "responded"} =>
        LET own == C26OwnMessages(req.user_id, req.conversation_id)
                        \cup C26OwnSummaries(req.user_id)
        IN  /\ \A k \in DOMAIN messages : C26Own(messages[k], own)
            /\ \A i \in DOMAIN sent : \A k \in DOMAIN sent[i] : C26Own(sent[i][k], own)

\* A asked on the conversation B uses and has a summary for; the provider was
\* given A's summary and A's earlier turns
C26Witness ==
    /\ pc = "returned"
    /\ req.user_id = "A"
    /\ \E k \in DOMAIN chat :
          chat[k].user_id = "B" /\ chat[k].conversation_id = req.conversation_id
    /\ \E k \in DOMAIN summaries :
          summaries[k].user_id = "B" /\ summaries[k].conversation_id = req.conversation_id
    /\ sent # << >>
    /\ sent[1][2] \in C26OwnSummaries("A")
    /\ Len(req.recent_messages) = AI_MAX_CONTEXT_MESSAGES - 1
    /\ \E k \in DOMAIN sent[1] : sent[1][k] = HistoryMessage(chat[2 * AI_MAX_CONTEXT_MESSAGES + 1])

-----------------------------------------------------------------------------
(* C27: logout revokes the refresh token *)

\* C27: a refresh token that POST /auth/logout has been served with is not
\* accepted again, whatever logins, refreshes and logouts follow:
\* find_valid_refresh_token finds no row for it, and a POST /auth/refresh
\* that carried it was answered 401.
C27LogoutRevokes ==
    /\ \A T \in auth.logged_out : find_valid_refresh_token(refresh_tokens, T, now) = {}
    /\ (auth.op = "refresh" /\ auth.token \in auth.logged_out) => auth.status = 401

\* a refresh with a logged-out token that has not expired was answered 401
\* after a later login, whose token is valid
C27Witness ==
    /\ auth.op = "refresh"
    /\ auth.token \in auth.logged_out
    /\ auth.status = 401
    /\ find_valid_refresh_token_revoked_or_not(refresh_tokens, auth.token, now) # {}
    /\ \E k \in DOMAIN refresh_tokens :
          /\ refresh_tokens[k].revoked_at = NotRevoked
          /\ refresh_tokens[k].token_hash # hash_refresh_token(auth.token)
          /\ refresh_tokens[k].expires_at > now

-----------------------------------------------------------------------------
(* C28: every tool call of a response is executed once *)

\* the ids of the tool calls that have got a result in the request
C28Consumed ==
    {all_tool_results[k].tool_call_id : k \in DOMAIN all_tool_results}
        \cup {tool_results[k].tool_call_id : k \in DOMAIN tool_results}

\* C28: no tool call is executed twice (the finished batches hold at most one
\* result per call id), and once the loop is over every tool call of the
\* last response obtained has been executed: none is left unexecuted.
C28ConsumedExactlyOnce ==
    /\ \A j, k \in DOMAIN all_tool_results :
          all_tool_results[j].tool_call_id = all_tool_results[k].tool_call_id => j = k
    /\ pc \in {"finalize", "returned", "raised", "responded"} =>
          \A k \in DOMAIN current_response.tool_calls :
              current_response.tool_calls[k].id \in C28Consumed

-----------------------------------------------------------------------------
(* C29: one batch *)

\* the step of the loop on the tool call at idx
C29Step ==
    pc = "exec" =>
        LET c == current_response'.tool_calls[idx] IN
        /\ Len(tool_results') = idx
        /\ SubSeq(tool_results', 1, idx - 1) = tool_results
        /\ tool_results'[idx].tool_call_id = c.id
        /\ tool_results'[idx].name = c.name
        /\ c.json = "valid" =>
              \E o \in execute_tool(db, req.user_id, c.name, c.tool_args) :
                  db' = o.db /\ tool_results'[idx] = ToolResult(c.id, c.name, o)
        /\ IF idx = Len(current_response.tool_calls)
           THEN pc' = "batch_done" ELSE pc' = "exec" /\ idx' = idx + 1

\* C29: the tool calls of a batch are taken one at a time in the order of
\* the response; each is executed against the table the previous one left,
\* with the arguments the provider gave; each adds exactly one result, after
\* those of the calls before it and with its own id and name; and the batch
\* ends when the last call has got its result.
C29BatchInOrder == [][C29Step]_vars

-----------------------------------------------------------------------------
(* C30: the message sequence only grows *)

C30Extends(before, after) ==
    LET n == Len(before) IN
    /\ Len(after) = n + 2
    /\ SubSeq(after, 1, n) = before
    /\ after[n + 1].role = "assistant"
    /\ after[n + 1].tool_calls # << >>
    /\ after[n + 2].role = "user"
    /\ Len(after[n + 2].results) = Len(after[n + 1].tool_calls)
    /\ \A k \in DOMAIN after[n + 2].results :
          after[n + 2].results[k].name = after[n + 1].tool_calls[k].name

\* C30: the sequence given to each provider call after the first is the
\* sequence given to the call before it, unchanged, followed by one
\* assistant entry echoing the tool calls of the batch and one user entry
\* reporting one result per call of that batch; and the sequence the request
\* holds is the one it last passed.
C30AppendOnly ==
    /\ \A i \in DOMAIN sent : i > 1 => C30Extends(sent[i - 1], sent[i])
    /\ sent # << >> => messages = sent[Len(sent)]

\* a request with two batches: the third call got the first sequence and
\* two entries per batch
C30Witness ==
    /\ Len(sent) = 3
    /\ tool_iterations = 2
    /\ Len(sent[3]) = Len(sent[1]) + 4
    /\ Len(sent[3][Len(sent[3])].results) > 1

-----------------------------------------------------------------------------
(* C31: the request conveys the assembled sequence *)

\* every entry of the request, those of the system instruction first
C31Conveyed(r) == r.system \o r.contents

\* C31: for each of the three backends, the request made for the first call
\* holds the system prompt exactly once, the text (and pack) of every entry
\* of the assembled sequence, and the new user turn as its last entry.
C31WholeSequence ==
    (sent # << >> /\ provider \in Providers) =>
        LET r == RequestOf(provider, sent[1])
            conveyed == C31Conveyed(r)
        IN  /\ Cardinality({k \in DOMAIN conveyed : conveyed[k] = SystemPromptMessage}) = 1
            /\ \A k \in DOMAIN sent[1] :
                  \E j \in DOMAIN conveyed :
                      /\ conveyed[j].content = sent[1][k].content
                      /\ conveyed[j].pack = sent[1][k].pack
            /\ r.contents # << >>
            /\ r.contents[Len(r.contents)] = UserMessage(req.text)

-----------------------------------------------------------------------------
(* C32: the executor accepts what the declared schema admits *)

\* the fields with a declared numeric bound, a declared enumeration or a
\* required identifier
C32Fields == {"limit", "top_n", "amount", "type", "group_by", "transaction_id"}

\* the fields for which the executor turned the last call down
C32Refused(e) == IF e.exc.code = "invalid_arguments" THEN e.exc.fields ELSE {}

C32Step ==
    (/\ steps' # steps
     /\ lastExec'.name \in ToolNames
     /\ lastExec'.tool_args.object) =>
        C32Refused(lastExec') \cap C32Fields
            = TOOLS(lastExec'.name, lastExec'.tool_args) \cap C32Fields

\* C32: for every tool and every payload, the executor turns the call down
\* for a bounded, enumerated or required field exactly when the declared
\* schema of the tool rejects that field: it accepts no payload the schema
\* rejects and rejects none the schema admits.
C32AcceptsWhatSchemaAdmits == [][C32Step]_vars

-----------------------------------------------------------------------------
(* C33: what update_transaction changes *)

\* the updatable fields the payload supplies
C33Supplied(a) ==
    {f \in {"amount"} : IsPresent(a.amount)}
    \cup {f \in {"type"} : a.type # AbsentStr}
    \cup {f \in {"category"} : a.category # AbsentStr}
    \cup {f \in {"description"} : a.description # AbsentStr}
    \cup {f \in {"occurred_at"} : a.occurred_at # AbsentDate}

\* the value the payload gives for a field, as the column keeps it
C33Value(a, f) ==
    IF f = "amount" THEN ToCents(a.amount.v)
    ELSE IF f = "type" THEN a.type
    ELSE IF f = "category" THEN a.category
    ELSE IF f = "description" THEN a.description
    ELSE a.occurred_at

C33Step ==
    (steps' # steps /\ lastExec'.name = "update_transaction" /\ lastExec'.tool_args.object) =>
        LET a == lastExec'.tool_args.args
            i == a.transaction_id
        IN  /\ C33Supplied(a) = {} => lastExec'.exc # NoExc
            /\ lastExec'.exc # NoExc => db' = db
            /\ lastExec'.exc = NoExc =>
                  /\ i \in DOMAIN db
                  /\ DOMAIN db' = DOMAIN db
                  /\ \A j \in DOMAIN db \ {i} : db'[j] = db[j]
                  /\ db'[i].user_id = db[i].user_id
                  /\ db[i].user_id = lastExec'.user_id
                  /\ \A f \in {"amount", "type", "category", "description", "occurred_at"} :
                        db'[i][f] = IF f \in C33Supplied(a) THEN C33Value(a, f) ELSE db[i][f]

\* C33: a successful update_transaction sets the fields its payload supplies,
\* in the caller's own row of the given id, to the supplied values and
\* leaves the other fields of that row, its owner, the set of ids and every
\* other row as they were; a failed one, and so one that supplies no field,
\* leaves the table as it was.
C33ExactlySupplied == [][C33Step]_vars

\* type and date of row 1 were updated next to a row of somebody else; the
\* amount and the category of row 1 are the seeded ones
C33Witness ==
    /\ lastExec.name = "update_transaction"
    /\ lastExec.exc = NoExc
    /\ C33Supplied(lastExec.tool_args.args) = {"type", "occurred_at"}
    /\ 1 \in DOMAIN db
    /\ db[1].type = "INCOME"
    /\ db[1].amount = SeedRow("A").amount
    /\ db[1].category = SeedRow("A").category
    /\ \E j \in DOMAIN db : db[j].user_id # db[1].user_id

-----------------------------------------------------------------------------
(* C34: what an exchange leaves in the conversation record *)

\* the row persisted last
C34Last(rows) == rows[Len(rows)]

C34Step ==
    /\ (pc = "idle" /\ pc' = "check_key") =>
          /\ Len(chat') = Len(chat) + 1
          /\ SubSeq(chat', 1, Len(chat)) = chat
          /\ C34Last(chat').role = "user"
          /\ C34Last(chat').user_id = req'.user_id
          /\ C34Last(chat').content = req'.text
    /\ (pc \notin {"idle", "returned", "raised"}) => chat' = chat
    /\ (pc' = "responded" /\ pc # "idle" /\ http'.status = 201) =>
          /\ Len(chat') = Len(chat) + 1
          /\ SubSeq(chat', 1, Len(chat)) = chat
          /\ C34Last(chat).role = "user"
          /\ C34Last(chat).content = req.text
          /\ C34Last(chat').role = "assistant"
          /\ C34Last(chat').user_id = req.user_id
          /\ C34Last(chat').conversation_id = C34Last(chat).conversation_id
          /\ outcome.kind = "returned" => C34Last(chat').content = <<outcome.content>>
    /\ (pc' = "responded" /\ http'.status # 201) => chat' = chat

\* C34: an exchange answered 201 appends two rows to the record: the user
\* message when the request arrives, and, when the route answers, one
\* assistant message of the same owner and conversation holding the content
\* of the reply; no step in between writes to the record, so neither the
\* tool-call turns nor the tool-result messages nor the tool results are
\* persisted. A conversation that was empty holds exactly these two rows.
C34TwoMessages ==
    /\ []((pc = "responded" /\ http.status = 201 /\ req.recent_messages = << >>
              /\ req.conversation_id = 1) => Len(chat) = 2)
    /\ [][C34Step]_vars

\* a gemini exchange of two batches was answered 201: the sequence passed to
\* the provider had grown by four entries, the record holds two rows
C34Witness ==
    /\ pc = "responded"
    /\ http.status = 201
    /\ tool_iterations = 2
    /\ Len(sent) = 3
    /\ Len(messages) = Len(sent[1]) + 4
    /\ Len(chat) = 2
    /\ chat[1].role = "user"
    /\ chat[2].content = <<outcome.content>>

-----------------------------------------------------------------------------
(* C35: a refresh extends the lifetime of the token *)

\* the expiry a successful refresh at time t sets on the cookie it re-issues
C35Reissued(t) == get_refresh_token_expiry(FALSE, t)

C35Step ==
    (auth'.op = "refresh" /\ auth'.status = 200 /\ auth' # auth) =>
        \A t \in now..(C35Reissued(now) - 1) :
            find_valid_refresh_token(refresh_tokens', auth'.token, t) # {}

\* C35: when POST /auth/refresh has accepted a token at time t, the token is
\* left acceptable at every time before the expiry the refresh re-issues (t
\* plus the period without remember_me), also past the expiry recorded at
\* login.
C35LifetimeExtended == [][C35Step]_vars

-----------------------------------------------------------------------------
(* C36: two concurrent deletes of one row *)

\* request r has reported the deletion: deleted: true in its result, the flag
\* and one info_card event in its metadata
C36Success(r) ==
    /\ deletes[r].result.error = ""
    /\ deletes[r].result.result.kind = "deleted"
    /\ deletes[r].metadata.did_delete_transaction
    /\ Len(deletes[r].metadata.ui_events) = 1
    /\ deletes[r].metadata.ui_events[1].type = "info_card"

\* request r has ended with an error entry and untouched metadata
C36Failure(r) ==
    /\ deletes[r].result.error # ""
    /\ deletes[r].metadata = EmptyMeta

\* both requests name the same transaction and the same owner, whose row it
\* was when they arrived
C36SameRow ==
    /\ deletes["first"].transaction_id = deletes["second"].transaction_id
    /\ deletes["first"].user_id = deletes["second"].user_id
    /\ deletes["first"].existed

\* C36: when two requests run delete_transaction for the same existing
\* transaction of the same owner and both have ended, at most one of them reports success,
\* the other has an error entry and no metadata flag, and the transaction is
\* not in the table.
C36AtMostOneSuccess ==
    (C36SameRow /\ \A r \in Requests : deletes[r].pc = "done") =>
        /\ \A r \in Requests : C36Success(r) \/ C36Failure(r)
        /\ \E r \in Requests : C36Failure(r)
        /\ deletes["first"].transaction_id \notin DOMAIN db

\* both requests had read the row before either deleted it; one reported the
\* deletion, the other could not delete
C36Witness ==
    /\ C36SameRow
    /\ \A r \in Requests : deletes[r].pc = "done" /\ deletes[r].transaction # NoRead
    /\ \E r \in Requests : C36Success(r)
    /\ \E r \in Requests : deletes[r].result.message.code = "could_not_be_deleted"

-----------------------------------------------------------------------------
(* C37: one credential per request *)

\* api_key changes only where get_api_key is called, and that is before the
\* first provider call; every provider call builds its client with api_key
C37Step ==
    /\ api_key' # api_key => (pc = "check_key" /\ providerCalls = 0 /\ keys_used = << >>)
    /\ keys_used' # keys_used =>
            /\ pc # "check_key"
            /\ keys_used' = Append(keys_used, api_key)
            /\ api_key' = api_key

\* C37: process_chat_message resolves the credential once, before any
\* provider call, and every provider call of the request uses that value,
\* whatever set_ephemeral_api_key calls of the owner and whatever expiry of
\* the owner's key happen while the request is in flight.
C37OneCredential ==
    [](\A i \in DOMAIN keys_used : keys_used[i] = api_key /\ api_key # "")
        /\ [][C37Step]_vars

\* a request of A made three provider calls with the key found at its start,
\* although by its end that key had expired and A had stored another one
C37Witness ==
    /\ pc = "returned"
    /\ req.user_id = "A"
    /\ keys_used = <<"sk-a1", "sk-a1", "sk-a1">>
    /\ now = MaxTime
    /\ ephemeral["A"].key = "sk-a2"

-----------------------------------------------------------------------------
(* C38: the ids of the tool calls of one response *)

\* the tool calls of the last response that the loop has read so far
C38Read == {k \in DOMAIN current_response.tool_calls :
                current_response.tool_calls[k] # Unread}

\* C38: the tool calls of one normalized response carry pairwise distinct
\* ids, whatever the backend, and every result of the batch under way has the
\* id of exactly one call of that response.
C38DistinctIds ==
    /\ \A j, k \in C38Read :
          current_response.tool_calls[j].id = current_response.tool_calls[k].id => j = k
    /\ pc \in {"exec", "batch_done"} =>
          \A i \in DOMAIN tool_results :
              Cardinality({k \in C38Read : current_response.tool_calls[k].id
                                              = tool_results[i].tool_call_id}) = 1

-----------------------------------------------------------------------------
(* C39: the content of a reply *)

\* C39: every reply that process_chat_message returns has non-empty content,
\* and so has every assistant message the route persists.
C39NonEmptyContent ==
    /\ outcome.kind = "returned" => outcome.content # ""
    /\ \A i \in DOMAIN chat :
          chat[i].role = "assistant" => chat[i].content # <<"">>
====
